---- MODULE Spec2Model ----
(***************************************************************************)
(* The thread publishing pipeline of skills/claude-thread-publisher:       *)
(* publish_to_gist.py (GistPublisher) and delete_gist.py (GistDeleter).    *)
(*                                                                         *)
(* Every command invocation is one short-lived process: main() builds the  *)
(* object (which loads the config and the index from their files), runs    *)
(* one handler and exits.  The state is what outlives a process: the index *)
(* file, the config file and the remote gists.  A handler is an operator   *)
(* from that state and the inputs of the run (arguments, answers typed at  *)
(* a prompt, what the remote system and the file system do) to the state   *)
(* it leaves and to what it held and reported: its in-memory index, the    *)
(* calls it made, its result.                                              *)
(***************************************************************************)
EXTENDS Integers, Sequences, FiniteSets, TLC

\* Cap on the ids the remote system hands out (it never reuses an id).
MaxGists == 2

GistIds == 1..MaxGists

\* Inputs of the commands, drawn from small sets.
Hashes == {"h1", "h2"}
None == "None"
\* What one publish invocation is given: the title of the metadata file, the
\* --project-path and --session-file arguments, and what the clock reads.
Invocations ==
    { [title |-> "Hi", project_path |-> None, session_file |-> None, now |-> "t1"],
      [title |-> "Hello", project_path |-> "/proj", session_file |-> "/proj/s.jsonl",
       now |-> "t2"] }
Answers == {"yes", " Y ", "no", ""}
Token == "ghp_x"
Faults == {"none", "http_error", "network"}
SaveOutcomes == {"ok", "failed"}

\* The fixed naming convention of the pipeline.
DescriptionMarker == "Claude Code Thread:"
ArtifactFiles == {"index.html", "thread.json", "metadata.json"}

VARIABLES
    disk,     \* the persisted index file
    config,   \* the persisted config file, as load_config reads it
    gists,    \* the remote system: id -> gist, for the gists that exist
    nextId,   \* the id the remote system gives to the next created gist
    procs,    \* the publish processes that run side by side: where each is
    ledger,   \* per hash, what the operator's commands have achieved so far
    session,  \* the session log handed to render_thread.py
    rendered, \* what the run of render_thread.py left: artifacts, exit status
    host      \* the local time zone of the host render_thread.py runs on

vars == <<disk, config, gists, nextId, procs, ledger, session, rendered, host>>

----------------------------------------------------------------------------
(* Values *)

EmptyThreads == [h \in {} |-> None]

MissingFile == [kind |-> "missing"]
JsonFile(threads) == [kind |-> "json", threads |-> threads]
\* A file that open() refuses (IOError), one that json.load rejects
\* (JSONDecodeError: empty, cut short, not JSON), and one that json.load
\* accepts and that holds no "threads" key, such as {}.
UnreadableFile == [kind |-> "unreadable"]
NotJsonFile == [kind |-> "not_json"]
NoThreadsFile == [kind |-> "no_threads"]

\* A JSON string is a sequence of words; JSON null is a value of its own.
JsonNull == [null |-> TRUE, words |-> <<>>]
JsonString(words) == [null |-> FALSE, words |-> words]

html_url(id) == <<"https://gist.github.com/", id>>

\* Gists that somebody else (or another installation) put on the account.
ForeignGists ==
    { [description |-> JsonString(<<"notes">>), files |-> {"notes.txt"}, public |-> TRUE],
      [description |-> JsonString(<<"my", "site">>), files |-> {"index.html", "style.css"},
       public |-> TRUE],
      [description |-> JsonString(<<"fwd:", DescriptionMarker>>), files |-> {},
       public |-> FALSE],
      [description |-> JsonNull, files |-> {"notes.txt"}, public |-> FALSE] }

----------------------------------------------------------------------------
(* The Index Store *)

\* load_index: a missing or unparseable file gives {"threads": {}}.
load_index(file) ==
    IF file.kind = "json" THEN file.threads ELSE EmptyThreads

\* load_index returns whatever json.load parsed, unexamined: the index it
\* hands to the process has a "threads" key unless the parsed file had none.
HasThreadsKey(file) == file.kind # "no_threads"

\* load_index prints "Warning: Could not load index" in its except clause.
WarnsOnLoad(file) == file.kind \in {"unreadable", "not_json"}

\* A save that cannot fail.
save_index_unfailing(threads, file, outcome) == JsonFile(threads)

\* A save that leaves a file already written alone.
save_index_once(threads, file, outcome) ==
    IF file.kind = "json" THEN file ELSE JsonFile(threads)

\* A save that keeps the entries the file holds for other hashes.
save_index_merging(threads, file, outcome) ==
    IF outcome = "ok"
    THEN JsonFile([h \in DOMAIN threads \cup DOMAIN load_index(file) |->
                      IF h \in DOMAIN threads THEN threads[h] ELSE load_index(file)[h]])
    ELSE IF outcome = "cut" THEN NotJsonFile
    ELSE file

\* save_index: open(path, 'w') truncates the file, json.dump writes it; an
\* IOError is caught and reported by the return value, which no caller reads.
\* "failed": open raised, the file is as it was.  "cut": the write stopped
\* after open had truncated the file (json.dump raised IOError, or the
\* process was killed), the file holds a prefix of the JSON text.
save_index(threads, file, outcome) ==
    IF outcome = "ok" THEN JsonFile(threads)
    ELSE IF outcome = "cut" THEN NotJsonFile
    ELSE file

----------------------------------------------------------------------------
(* The remote calls of the publisher *)

NoResult == [ok |-> FALSE, id |-> 0, html_url |-> html_url(0)]
Gist(id) == [ok |-> TRUE, id |-> id, html_url |-> html_url(id)]

\* ensure_github_token: the token of the config, else the one the operator
\* types at the prompt, which counts only once save_config has stored it.
ensure_github_token(cfg, typed, cfg_save_ok) ==
    IF cfg.github_token # None
    THEN [token |-> cfg.github_token, file |-> cfg]
    ELSE IF typed = ""
    THEN [token |-> None, file |-> cfg]
    ELSE IF cfg_save_ok
    THEN [token |-> typed, file |-> [cfg EXCEPT !.github_token = typed]]
    ELSE [token |-> None, file |-> cfg]

\* The description publish_thread builds from the metadata.
Description(title) == JsonString(<<DescriptionMarker, "title">>)

\* create_gist without raise_for_status: an error response passes for a gist.
create_gist_unchecked(token, description, files, public, fault, gs, nid) ==
    IF token = None
    THEN [result |-> NoResult, requests |-> <<>>, gists |-> gs, nextId |-> nid]
    ELSE IF fault = "none"
    THEN [result |-> Gist(nid),
          requests |-> << <<"POST", nid, 201>> >>,
          gists |-> (nid :> [description |-> description, files |-> files,
                             public |-> public]) @@ gs,
          nextId |-> nid + 1]
    ELSE IF fault = "http_error"
    THEN [result |-> Gist(nid), requests |-> << <<"POST", 0, 500>> >>,
          gists |-> gs, nextId |-> nid]
    ELSE [result |-> NoResult, requests |-> << <<"POST", 0, 0>> >>,
          gists |-> gs, nextId |-> nid]

\* create_gist: POST /gists.  Without a token nothing is sent.  A response
\* that raise_for_status accepts is the new gist; a RequestException is None.
create_gist(token, description, files, public, fault, gs, nid) ==
    IF token = None
    THEN [result |-> NoResult, requests |-> <<>>, gists |-> gs, nextId |-> nid]
    ELSE IF fault = "none"
    THEN [result |-> Gist(nid),
          requests |-> << <<"POST", nid, 201>> >>,
          gists |-> (nid :> [description |-> description, files |-> files,
                             public |-> public]) @@ gs,
          nextId |-> nid + 1]
    ELSE [result |-> NoResult,
          requests |-> << <<"POST", 0, IF fault = "http_error" THEN 500 ELSE 0>> >>,
          gists |-> gs, nextId |-> nid]

\* An update that makes the gist private again.
update_gist_private(token, gist_id, description, files, fault, gs) ==
    IF token = None
    THEN [result |-> NoResult, requests |-> <<>>, gists |-> gs]
    ELSE IF fault = "none" /\ gist_id \in DOMAIN gs
    THEN [result |-> Gist(gist_id),
          requests |-> << <<"PATCH", gist_id, 200>> >>,
          gists |-> [gs EXCEPT ![gist_id] =
                        [@ EXCEPT !.description = description,
                                  !.files = @ \cup files,
                                  !.public = FALSE]]]
    ELSE [result |-> NoResult, requests |-> << <<"PATCH", gist_id, 0>> >>,
          gists |-> gs]

\* An update that answers a gist that is gone as if the update had succeeded.
update_gist_lenient(token, gist_id, description, files, fault, gs) ==
    IF token = None
    THEN [result |-> NoResult, requests |-> <<>>, gists |-> gs]
    ELSE IF fault = "none"
    THEN [result |-> Gist(gist_id),
          requests |-> << <<"PATCH", gist_id, 200>> >>,
          gists |-> gs]
    ELSE [result |-> NoResult,
          requests |-> << <<"PATCH", gist_id, IF fault = "network" THEN 0 ELSE 500>> >>,
          gists |-> gs]

\* update_gist: PATCH /gists/{id} with a description and files, and no
\* visibility.  A gist that is gone answers 404, which raise_for_status raises.
update_gist(token, gist_id, description, files, fault, gs) ==
    IF token = None
    THEN [result |-> NoResult, requests |-> <<>>, gists |-> gs]
    ELSE IF fault = "none" /\ gist_id \in DOMAIN gs
    THEN [result |-> Gist(gist_id),
          requests |-> << <<"PATCH", gist_id, 200>> >>,
          gists |-> [gs EXCEPT ![gist_id] =
                        [@ EXCEPT !.description = description,
                                  !.files = @ \cup files]]]
    ELSE [result |-> NoResult,
          requests |-> << <<"PATCH", gist_id,
                            CASE fault = "network" -> 0
                              [] fault = "http_error" -> 500
                              [] OTHER -> 404>> >>,
          gists |-> gs]

----------------------------------------------------------------------------
(* GistPublisher.publish_thread *)

\* The update branch with the flag read the wrong way round.
TakesUpdateBranchInverted(threads, thread_hash, update_existing) ==
    thread_hash \in DOMAIN threads /\ ~update_existing

\* "if existing_entry and update_existing": the update branch.
TakesUpdateBranch(threads, thread_hash, update_existing) ==
    thread_hash \in DOMAIN threads /\ update_existing

\* The update branch refreshing the title as well.
UpdatedEntryWithTitle(entry, now, project_path, session_file, title) ==
    [entry EXCEPT !.last_published_at = now,
                  !.project_path = project_path,
                  !.session_file = session_file,
                  !.title = title]

\* The update branch writes three fields of the existing entry; the title
\* of the metadata is in scope and is not written.
UpdatedEntry(entry, now, project_path, session_file, title) ==
    [entry EXCEPT !.last_published_at = now,
                  !.project_path = project_path,
                  !.session_file = session_file]

\* The entry the create branch stores under the hash.
CreatedEntry(result, now, project_path, session_file, title) ==
    [gist_id |-> result.id,
     gist_url |-> result.html_url,
     last_published_at |-> now,
     project_path |-> project_path,
     session_file |-> session_file,
     title |-> title]

\* The reported action decided by the entry alone, whatever the caller forces.
ReportedActionByEntry(threads, thread_hash, update_existing) ==
    IF thread_hash \in DOMAIN threads THEN "updated" ELSE "created"

\* The action publish_thread reports with a result.
ReportedAction(threads, thread_hash, update_existing) ==
    IF TakesUpdateBranch(threads, thread_hash, update_existing)
    THEN "updated" ELSE "created"

publish_thread(threads, cfg, file, gs, nid, thread_hash, title, project_path, session_file, update_existing, typed, cfg_save_ok, fault, save_outcome, now) ==
    LET tok == ensure_github_token(cfg, typed, cfg_save_ok)
        public == ~cfg.gists_private_by_default
        description == Description(title)
    IN  IF ~HasThreadsKey(file)
        THEN \* self.index["threads"] raises KeyError before any remote call
             [threads |-> threads, file |-> file, config |-> cfg, gists |-> gs,
              nextId |-> nid, calls |-> <<>>, requests |-> <<>>, saves |-> <<>>,
              result |-> NoResult, action |-> None, raised |-> TRUE]
        ELSE
        IF TakesUpdateBranch(threads, thread_hash, update_existing)
        THEN LET gist_id == threads[thread_hash].gist_id
                 r == update_gist(tok.token, gist_id, description, ArtifactFiles, fault, gs)
                 t == IF r.result.ok
                      THEN [threads EXCEPT ![thread_hash] =
                              UpdatedEntry(@, now, project_path, session_file, title)]
                      ELSE threads
             IN  [threads |-> t,
                  file |-> IF r.result.ok THEN save_index(t, file, save_outcome) ELSE file,
                  config |-> tok.file,
                  gists |-> r.gists, nextId |-> nid,
                  calls |-> << <<"update_gist", gist_id>> >>,
                  requests |-> r.requests,
                  saves |-> IF r.result.ok THEN <<save_outcome>> ELSE <<>>,
                  result |-> r.result,
                  action |-> IF r.result.ok
                             THEN ReportedAction(threads, thread_hash, update_existing)
                             ELSE None,
                  raised |-> FALSE]
        ELSE LET r == create_gist(tok.token, description, ArtifactFiles, public, fault, gs, nid)
                 t == IF r.result.ok
                      THEN (thread_hash :> CreatedEntry(r.result, now, project_path,
                                                        session_file, title)) @@ threads
                      ELSE threads
             IN  [threads |-> t,
                  file |-> IF r.result.ok THEN save_index(t, file, save_outcome) ELSE file,
                  config |-> tok.file,
                  gists |-> r.gists, nextId |-> r.nextId,
                  calls |-> << <<"create_gist", 0>> >>,
                  requests |-> r.requests,
                  saves |-> IF r.result.ok THEN <<save_outcome>> ELSE <<>>,
                  result |-> r.result,
                  action |-> IF r.result.ok
                             THEN ReportedAction(threads, thread_hash, update_existing)
                             ELSE None,
                  raised |-> FALSE]

----------------------------------------------------------------------------
(* GistDeleter *)

\* A deleter that falls back on a built-in token.
get_github_token_default(cfg) ==
    IF cfg.github_token = None THEN Token ELSE cfg.github_token

\* get_github_token: the token of the config; the deleter never prompts.
get_github_token(cfg) == cfg.github_token

\* The status the remote system answers a DELETE with (0: no answer).
DeleteStatus(gist_id, fault, gs) ==
    CASE fault = "network" -> 0
      [] fault = "http_error" -> 500
      [] OTHER -> IF gist_id \in DOMAIN gs THEN 204 ELSE 404

\* delete_gist without the 404 branch: only 204 counts.
CountsAsDeletedStrict(status) == status = 204

\* "if response.status_code == 204 ... elif response.status_code == 404":
\* the answers delete_gist returns {"success": True} for.
CountsAsDeleted(status) == status \in {204, 404}

\* delete_gist: DELETE /gists/{id}.  Without a token nothing is sent.
delete_gist(token, gist_id, fault, gs) ==
    IF token = None
    THEN [success |-> FALSE, requests |-> <<>>, gists |-> gs]
    ELSE LET status == DeleteStatus(gist_id, fault, gs)
         IN  [success |-> CountsAsDeleted(status),
              requests |-> << <<"DELETE", gist_id, status>> >>,
              gists |-> IF status = 204
                        THEN [g \in DOMAIN gs \ {gist_id} |-> gs[g]]
                        ELSE gs]

\* input(...).strip().lower(), on the answers considered.
StripLower(answer) == IF answer = " Y " THEN "y" ELSE answer

\* Every answer but a plain "no" taken for a yes.
ConfirmedUnlessNo(answer) == StripLower(answer) # "no"

\* "response not in ['yes', 'y']" after strip().lower()
Confirmed(answer) == StripLower(answer) \in {"yes", "y"}

\* The entry left in place.
KeepEntry(threads, thread_hash) == threads

\* "del self.index['threads'][thread_hash]"
RemoveEntry(threads, thread_hash) ==
    [h \in DOMAIN threads \ {thread_hash} |-> threads[h]]

\* The not-found return after a save of the index it did not change.
NotFoundLocallySaving(threads, file, gs) ==
    [threads |-> threads, file |-> JsonFile(threads), gists |-> gs, calls |-> <<>>,
     requests |-> <<>>, saves |-> <<"ok">>, prompts |-> 0, success |-> FALSE,
     outcome |-> "not_found_locally"]

\* "if thread_hash not in self.index['threads']: ... return None"
NotFoundLocally(threads, file, gs) ==
    [threads |-> threads, file |-> file, gists |-> gs, calls |-> <<>>,
     requests |-> <<>>, saves |-> <<>>, prompts |-> 0, success |-> FALSE,
     outcome |-> "not_found_locally"]

delete_thread_by_hash(threads, cfg, file, gs, thread_hash, confirm, answer, fault, save_outcome) ==
    IF ~HasThreadsKey(file)
    THEN \* self.index["threads"] raises KeyError at the lookup
         [threads |-> threads, file |-> file, gists |-> gs, calls |-> <<>>,
          requests |-> <<>>, saves |-> <<>>, prompts |-> 0, success |-> FALSE,
          outcome |-> "raised"]
    ELSE IF thread_hash \notin DOMAIN threads
    THEN NotFoundLocally(threads, file, gs)
    ELSE IF confirm /\ ~Confirmed(answer)
    THEN [threads |-> threads, file |-> file, gists |-> gs, calls |-> <<>>,
          requests |-> <<>>, saves |-> <<>>, prompts |-> 1, success |-> FALSE,
          outcome |-> "cancelled"]
    ELSE LET gist_id == threads[thread_hash].gist_id
             r == delete_gist(get_github_token(cfg), gist_id, fault, gs)
             t == IF r.success THEN RemoveEntry(threads, thread_hash) ELSE threads
         IN  [threads |-> t,
              file |-> IF r.success THEN save_index(t, file, save_outcome) ELSE file,
              gists |-> r.gists,
              calls |-> << <<"delete_gist", gist_id>> >>,
              requests |-> r.requests,
              saves |-> IF r.success THEN <<save_outcome>> ELSE <<>>,
              prompts |-> IF confirm THEN 1 ELSE 0,
              success |-> r.success,
              outcome |-> IF r.success THEN "deleted" ELSE "delete_failed"]

\* Direct deletion that also drops the entries naming the gist and saves.
delete_by_id_pruning(threads, cfg, file, gs, gist_id, force, answer, fault) ==
    IF ~force /\ ~Confirmed(answer)
    THEN [threads |-> threads, file |-> file, gists |-> gs, calls |-> <<>>,
          requests |-> <<>>, prompts |-> 1, success |-> FALSE,
          outcome |-> "cancelled"]
    ELSE LET r == delete_gist(get_github_token(cfg), gist_id, fault, gs)
             t == IF r.success
                  THEN [h \in {k \in DOMAIN threads : threads[k].gist_id # gist_id}
                          |-> threads[h]]
                  ELSE threads
         IN  [threads |-> t,
              file |-> IF r.success THEN JsonFile(t) ELSE file,
              gists |-> r.gists,
              calls |-> << <<"delete_gist", gist_id>> >>,
              requests |-> r.requests,
              prompts |-> IF force THEN 0 ELSE 1,
              success |-> r.success,
              outcome |-> IF r.success THEN "deleted" ELSE "delete_failed"]

\* main, --gist-id: "Direct gist deletion".  The index the constructor
\* loaded is held by the process and used by nothing in this branch.
delete_by_id(threads, cfg, file, gs, gist_id, force, answer, fault) ==
    IF ~force /\ ~Confirmed(answer)
    THEN [threads |-> threads, file |-> file, gists |-> gs, calls |-> <<>>,
          requests |-> <<>>, prompts |-> 1, success |-> FALSE,
          outcome |-> "cancelled"]
    ELSE LET r == delete_gist(get_github_token(cfg), gist_id, fault, gs)
         IN  [threads |-> threads, file |-> file, gists |-> r.gists,
              calls |-> << <<"delete_gist", gist_id>> >>,
              requests |-> r.requests,
              prompts |-> IF force THEN 0 ELSE 1,
              success |-> r.success,
              outcome |-> IF r.success THEN "deleted" ELSE "delete_failed"]

----------------------------------------------------------------------------
(* GistDeleter.cleanup_orphaned_gists *)

\* The listing GET /gists answers with, as a sequence of ids.
ListedIds(gs, nid) ==
    SelectSeq([i \in 1..(nid - 1) |-> i], LAMBDA i : i \in DOMAIN gs)

\* '"Claude Code Thread:" in description', for a description that is a string.
ContainsMarker(description) ==
    \E i \in 1..Len(description.words) : description.words[i] = DescriptionMarker

\* 'any(filename in ["index.html", "thread.json", "metadata.json"] for ...)'
HasArtifactFile(files) == \E filename \in files : filename \in ArtifactFiles

\* The test that makes a listed gist a candidate.
IsCandidate(gist) ==
    ContainsMarker(gist.description) \/ HasArtifactFile(gist.files)

\* 'in' applied to None raises TypeError, which the method does not catch.
RaisesTypeError(gist) == gist.description.null

\* "known_gist_ids = {info['gist_id'] for info in self.index['threads'].values()}"
KnownGistIds(threads) == { threads[h].gist_id : h \in DOMAIN threads }

\* "orphaned_gists = [gist for gist in candidate_gists if gist['id'] not in known_gist_ids]"
OrphanedGists(threads, gs, nid) ==
    SelectSeq(ListedIds(gs, nid),
              LAMBDA i : IsCandidate(gs[i]) /\ i \notin KnownGistIds(threads))

\* The loop leaving at the first delete that fails.
RECURSIVE DeleteUntilFailure(_, _, _, _)
DeleteUntilFailure(token, orphans, faults, gs) ==
    IF orphans = <<>>
    THEN [gists |-> gs, calls |-> <<>>, requests |-> <<>>,
          deleted_count |-> 0, failed_count |-> 0]
    ELSE LET id == Head(orphans)
             r == delete_gist(token, id, faults[id], gs)
             rest == IF r.success
                     THEN DeleteUntilFailure(token, Tail(orphans), faults, r.gists)
                     ELSE [gists |-> r.gists, calls |-> <<>>, requests |-> <<>>,
                           deleted_count |-> 0, failed_count |-> 0]
         IN  [gists |-> rest.gists,
              calls |-> << <<"delete_gist", id>> >> \o rest.calls,
              requests |-> r.requests \o rest.requests,
              deleted_count |-> rest.deleted_count + (IF r.success THEN 1 ELSE 0),
              failed_count |-> rest.failed_count + (IF r.success THEN 0 ELSE 1)]

\* The loop "for gist in orphaned_gists: if self.delete_gist(gist['id'])".
RECURSIVE DeleteEach(_, _, _, _)
DeleteEach(token, orphans, faults, gs) ==
    IF orphans = <<>>
    THEN [gists |-> gs, calls |-> <<>>, requests |-> <<>>,
          deleted_count |-> 0, failed_count |-> 0]
    ELSE LET id == Head(orphans)
             r == delete_gist(token, id, faults[id], gs)
             rest == DeleteEach(token, Tail(orphans), faults, r.gists)
         IN  [gists |-> rest.gists,
              calls |-> << <<"delete_gist", id>> >> \o rest.calls,
              requests |-> r.requests \o rest.requests,
              deleted_count |-> rest.deleted_count + (IF r.success THEN 1 ELSE 0),
              failed_count |-> rest.failed_count + (IF r.success THEN 0 ELSE 1)]

\* The prompt reached whatever dry_run says.
AsksToDeleteAlways(orphans, dry_run) == orphans # <<>>

\* "if orphaned_gists: ... if not dry_run:" : the run goes on to the prompt.
AsksToDelete(orphans, dry_run) == orphans # <<>> /\ ~dry_run

\* The ids a run of cleanup_orphaned_gists calls delete_gist for.
DeletesAttempted(threads, cfg, file, gs, nid, dry_run, list_fault, answer) ==
    IF /\ get_github_token(cfg) # None
       /\ list_fault = "none"
       /\ ~\E i \in DOMAIN gs : RaisesTypeError(gs[i])
       /\ HasThreadsKey(file)
       /\ AsksToDelete(OrphanedGists(threads, gs, nid), dry_run)
       /\ Confirmed(answer)
    THEN { OrphanedGists(threads, gs, nid)[k] :
             k \in 1..Len(OrphanedGists(threads, gs, nid)) }
    ELSE {}

cleanup_orphaned_gists(threads, cfg, file, gs, nid, dry_run, list_fault, answer, faults) ==
    LET token == get_github_token(cfg)
        quiet == [threads |-> threads, file |-> file, gists |-> gs,
                  calls |-> <<>>, prompts |-> 0, orphans |-> <<>>,
                  deleted_count |-> 0, failed_count |-> 0]
    IN  IF token = None
        THEN quiet @@ [requests |-> <<>>, outcome |-> "no_token"]
        ELSE IF list_fault # "none"
        THEN quiet @@ [requests |-> << <<"GET", 0, IF list_fault = "http_error" THEN 500 ELSE 0>> >>,
                       outcome |-> "list_failed"]
        ELSE IF (\E i \in DOMAIN gs : RaisesTypeError(gs[i])) \/ ~HasThreadsKey(file)
        THEN \* TypeError in the filter, or KeyError at known_gist_ids
             quiet @@ [requests |-> << <<"GET", 0, 200>> >>, outcome |-> "raised"]
        ELSE LET orphans == OrphanedGists(threads, gs, nid)
                 listed == << <<"GET", 0, 200>> >>
             IN  IF ~AsksToDelete(orphans, dry_run)
                 THEN [quiet EXCEPT !.orphans = orphans]
                      @@ [requests |-> listed, outcome |-> "reported"]
                 ELSE IF ~Confirmed(answer)
                 THEN [quiet EXCEPT !.orphans = orphans, !.prompts = 1]
                      @@ [requests |-> listed, outcome |-> "cancelled"]
                 ELSE LET d == DeleteEach(token, orphans, faults, gs)
                      IN  [threads |-> threads, file |-> file,
                           gists |-> d.gists, calls |-> d.calls, prompts |-> 1,
                           orphans |-> orphans,
                           deleted_count |-> d.deleted_count,
                           failed_count |-> d.failed_count,
                           requests |-> listed \o d.requests,
                           outcome |-> "deleted"]

----------------------------------------------------------------------------
(* The processes: one action per command invocation (main) *)

DefaultConfig == [github_token |-> None, gists_private_by_default |-> TRUE]
NoGists == [i \in {} |-> None]

\* The time zones a host may be set to; datetime.fromtimestamp reads the
\* setting of the host it runs on.
HomeZone == "UTC"
TimeZones == {HomeZone, "Asia/Tokyo"}

\* No session log at hand, and no run of the renderer yet.
NoSession == [access |-> "ok", lines |-> <<>>]
NotRendered ==
    [done |-> FALSE, exit |-> 0, artifacts |-> {}, error |-> None,
     thread_hash |-> <<>>, title |-> <<>>]

\* The processes that may run side by side.
Procs == {1, 2}

\* A process that has not started: no index loaded, nothing created.
IdleProc ==
    [pc |-> "idle", hash |-> None, index |-> EmptyThreads, created |-> 0, rank |-> 0,
     seen |-> 0, orphans |-> <<>>]

NoProcs == [p \in Procs |-> IdleProc]

\* Nothing published, nothing deleted.
NoLedger == [h \in Hashes |-> [published |-> FALSE, deleted |-> FALSE]]

Init ==
    /\ disk = MissingFile
    /\ config = DefaultConfig
    /\ gists = NoGists
    /\ nextId = 1
    /\ procs = NoProcs
    /\ ledger = NoLedger
    /\ session = NoSession
    /\ rendered = NotRendered
    /\ host = HomeZone

\* publish_to_gist.py main: publish the rendered thread named by the metadata.
PublishRun ==
    \E thread_hash \in Hashes, inv \in Invocations, update_existing \in BOOLEAN :
    \E typed \in IF config.github_token = None THEN {"", Token} ELSE {""} :
    \E cfg_save_ok \in IF typed = "" THEN {TRUE} ELSE BOOLEAN :
    \E fault \in IF ensure_github_token(config, typed, cfg_save_ok).token = None
                 THEN {"none"} ELSE Faults :
    \E save_outcome \in IF fault = "none" THEN SaveOutcomes ELSE {"ok"} :
        LET r == publish_thread(load_index(disk), config, disk, gists, nextId,
                                thread_hash, inv.title, inv.project_path,
                                inv.session_file, update_existing, typed,
                                cfg_save_ok, fault, save_outcome, inv.now)
        IN  /\ r.nextId <= MaxGists + 1
            /\ disk' = r.file
            /\ config' = r.config
            /\ gists' = r.gists
            /\ nextId' = r.nextId
            /\ UNCHANGED <<procs, ledger, session, rendered, host>>

\* delete_gist.py main, --thread-hash: delete a published thread by its hash.
DeleteByHashRun ==
    \E thread_hash \in Hashes, force \in BOOLEAN :
    \E answer \in IF force THEN {"yes"} ELSE Answers :
    \E fault \in IF Confirmed(answer) THEN Faults ELSE {"none"} :
    \E save_outcome \in IF fault = "none" THEN SaveOutcomes ELSE {"ok"} :
        LET r == delete_thread_by_hash(load_index(disk), config, disk, gists,
                                       thread_hash, ~force, answer, fault,
                                       save_outcome)
        IN  /\ disk' = r.file
            /\ gists' = r.gists
            /\ UNCHANGED <<config, nextId, procs, ledger, session, rendered, host>>

\* delete_gist.py main, --gist-id: delete a gist by its id, bypassing the index.
DeleteByIdRun ==
    \E gist_id \in GistIds, force \in BOOLEAN :
    \E answer \in IF force THEN {"yes"} ELSE Answers :
    \E fault \in IF Confirmed(answer) THEN Faults ELSE {"none"} :
        LET r == delete_by_id(load_index(disk), config, disk, gists, gist_id,
                              force, answer, fault)
        IN  /\ disk' = r.file
            /\ gists' = r.gists
            /\ UNCHANGED <<config, nextId, procs, ledger, session, rendered, host>>

\* delete_gist.py main, --cleanup [--cleanup-execute]: list or delete orphans.
CleanupRun ==
    \E dry_run \in BOOLEAN, list_fault \in Faults :
    \E answer \in IF dry_run \/ list_fault # "none" THEN {"no"} ELSE Answers :
    \E faults \in [DeletesAttempted(load_index(disk), config, disk, gists, nextId,
                                     dry_run, list_fault, answer) -> Faults] :
        LET r == cleanup_orphaned_gists(load_index(disk), config, disk, gists,
                                        nextId, dry_run, list_fault, answer, faults)
        IN  /\ disk' = r.file
            /\ gists' = r.gists
            /\ UNCHANGED <<config, nextId, procs, ledger, session, rendered, host>>

(* The environment *)

\* Somebody creates a gist on the account, outside the pipeline.
ForeignCreate ==
    \E g \in ForeignGists :
        /\ nextId <= MaxGists
        /\ gists' = (nextId :> g) @@ gists
        /\ nextId' = nextId + 1
        /\ UNCHANGED <<disk, config, procs, ledger, session, rendered, host>>

Next ==
    \/ PublishRun
    \/ DeleteByHashRun
    \/ DeleteByIdRun
    \/ CleanupRun
    \/ ForeignCreate

Spec == Init /\ [][Next]_vars
----------------------------------------------------------------------------
(* What the claims talk about *)

\* The in-memory index a new process starts from.
Loaded == load_index(disk)

\* One run of the publish command from the present state.
Publish(thread_hash, inv, update_existing, typed, cfg_save_ok, fault, save_outcome) ==
    publish_thread(Loaded, config, disk, gists, nextId, thread_hash, inv.title,
                   inv.project_path, inv.session_file, update_existing, typed,
                   cfg_save_ok, fault, save_outcome, inv.now)

\* The run of the publish command that follows a run which left r.
PublishAfter(r, thread_hash, inv, update_existing, fault, save_outcome) ==
    publish_thread(load_index(r.file), r.config, r.file, r.gists, r.nextId,
                   thread_hash, inv.title, inv.project_path, inv.session_file,
                   update_existing, "", TRUE, fault, save_outcome, inv.now)

Typings == IF config.github_token = None THEN {"", Token} ELSE {""}

\* Every request of the log is `verb` on gist `id`.
OnlyRequests(requests, verb, id) ==
    \A k \in 1..Len(requests) : requests[k][1] = verb /\ requests[k][2] = id

NoRequest(requests, verb) ==
    \A k \in 1..Len(requests) : requests[k][1] # verb

\* The save the run made was one save_index call, and the file holds the
\* in-memory index when the write went through.
SavedOnce(r, save_outcome) ==
    /\ r.saves = <<save_outcome>>
    /\ save_outcome = "ok" => r.file = JsonFile(r.threads)

\* The two mappings agree outside the hash.
SameElsewhere(before, after, thread_hash) ==
    /\ DOMAIN after \ {thread_hash} = DOMAIN before \ {thread_hash}
    /\ \A k \in DOMAIN before \ {thread_hash} : after[k] = before[k]

----------------------------------------------------------------------------
\* C1: from an index without an entry for h, two successive non-forced
\* publishes of h whose remote calls and saves succeed leave one entry for h
\* and one more remote gist; the first reports "created", the second
\* "updated" with the id of the first.
C1_IdempotentPublish ==
    \A h \in Hashes, inv1 \in Invocations, inv2 \in Invocations, typed \in Typings :
        LET r1 == Publish(h, inv1, TRUE, typed, TRUE, "none", "ok")
            r2 == PublishAfter(r1, h, inv2, TRUE, "none", "ok")
        IN  (h \notin DOMAIN Loaded /\ r1.result.ok /\ r2.result.ok) =>
                /\ r1.action = "created"
                /\ r2.action = "updated"
                /\ r2.result.id = r1.result.id
                /\ r1.result.id \notin DOMAIN gists
                /\ DOMAIN r2.gists = DOMAIN gists \cup {r1.result.id}
                /\ h \in DOMAIN load_index(r2.file)
                /\ load_index(r2.file)[h].gist_id = r1.result.id
                /\ SameElsewhere(Loaded, load_index(r2.file), h)

\* The index holds one entry, created for "Hi" and republished at "t2", and
\* the remote system has handed out one id.
C1_Witness ==
    /\ DOMAIN Loaded = {"h1"}
    /\ Loaded["h1"].title = "Hi"
    /\ Loaded["h1"].last_published_at = "t2"
    /\ Loaded["h1"].gist_id = 1
    /\ DOMAIN gists = {1}
    /\ nextId = 2

\* C2: with an entry for the hash and no forcing, publish_thread makes one
\* update call on the entry's gist id and no create call; on success only
\* last_published_at, project_path and session_file of that entry change,
\* the index is saved and the action is "updated".
C2_UpdateFrame ==
    \A h \in DOMAIN Loaded, inv \in Invocations, typed \in Typings,
       fault \in Faults, save_outcome \in SaveOutcomes :
        LET e == Loaded[h]
            r == Publish(h, inv, TRUE, typed, TRUE, fault, save_outcome)
        IN  /\ r.calls = << <<"update_gist", e.gist_id>> >>
            /\ Len(r.requests) <= 1
            /\ OnlyRequests(r.requests, "PATCH", e.gist_id)
            /\ r.nextId = nextId
            /\ r.result.ok =>
                /\ SameElsewhere(Loaded, r.threads, h)
                /\ h \in DOMAIN r.threads
                /\ r.threads[h] = [e EXCEPT !.last_published_at = inv.now,
                                            !.project_path = inv.project_path,
                                            !.session_file = inv.session_file]
                /\ r.threads[h].gist_id = e.gist_id
                /\ r.threads[h].gist_url = e.gist_url
                /\ r.threads[h].title = e.title
                /\ SavedOnce(r, save_outcome)
                /\ r.action = "updated"
                /\ r.result.id = e.gist_id

\* Two entries; a successful update with the other invocation changes the
\* time and the provenance of one of them, whose title differs from the
\* title the update was given.
C2_Witness ==
    /\ DOMAIN Loaded = Hashes
    /\ \E h \in DOMAIN Loaded, inv \in Invocations :
          LET r == Publish(h, inv, TRUE, "", TRUE, "none", "ok")
          IN  /\ r.result.ok
              /\ inv.title # Loaded[h].title
              /\ r.threads[h].last_published_at # Loaded[h].last_published_at
              /\ r.threads[h].project_path # Loaded[h].project_path
              /\ r.file = JsonFile(r.threads)

\* C3: without an entry for the hash, or when the caller forces a fresh
\* gist, publish_thread makes one create call and no update call; on success
\* the index maps the hash to the id and URL the create call returned,
\* replacing a previous entry, the index is saved and the action is "created".
C3_CreateBranch ==
    \A h \in Hashes, update_existing \in BOOLEAN, inv \in Invocations,
       typed \in Typings, fault \in Faults, save_outcome \in SaveOutcomes :
        LET r == Publish(h, inv, update_existing, typed, TRUE, fault, save_outcome)
        IN  (h \notin DOMAIN Loaded \/ ~update_existing) =>
                /\ r.calls = << <<"create_gist", 0>> >>
                /\ Len(r.requests) <= 1
                /\ NoRequest(r.requests, "PATCH")
                /\ \A k \in 1..Len(r.requests) : r.requests[k][1] = "POST"
                /\ r.result.ok =>
                    /\ r.result.id \notin DOMAIN gists
                    /\ DOMAIN r.gists = DOMAIN gists \cup {r.result.id}
                    /\ r.requests = << <<"POST", r.result.id, 201>> >>
                    /\ h \in DOMAIN r.threads
                    /\ r.threads[h].gist_id = r.result.id
                    /\ r.threads[h].gist_url = html_url(r.result.id)
                    /\ r.threads[h].title = inv.title
                    /\ SameElsewhere(Loaded, r.threads, h)
                    /\ SavedOnce(r, save_outcome)
                    /\ r.action = "created"

\* A forced publish of a hash that has an entry: the entry is replaced by
\* one for the new gist, and the old gist stays on the remote system.
C3_Witness ==
    \E h \in DOMAIN Loaded, inv \in Invocations :
        LET r == Publish(h, inv, FALSE, "", TRUE, "none", "ok")
        IN  /\ Loaded[h].gist_id \in DOMAIN gists
            /\ r.result.ok
            /\ r.action = "created"
            /\ r.threads[h].gist_id # Loaded[h].gist_id
            /\ Loaded[h].gist_id \in DOMAIN r.gists
            /\ r.file = JsonFile(r.threads)

\* C4: when the remote create or update call fails (no answer, or an answer
\* that is not 2xx), publish_thread reports failure, the in-memory and the
\* persisted index are as before, and a retry takes the same branch on the
\* same gist id.
C4_RemoteFailure ==
    \A h \in Hashes, update_existing \in BOOLEAN, inv \in Invocations,
       typed \in Typings, fault \in Faults :
        LET r == Publish(h, inv, update_existing, typed, TRUE, fault, "ok")
            failed == /\ r.requests # <<>>
                      /\ r.requests[1][3] \notin {200, 201}
        IN  failed =>
                /\ ~r.result.ok
                /\ r.action = None
                /\ r.threads = Loaded
                /\ r.file = disk
                /\ r.saves = <<>>
                /\ r.gists = gists
                /\ \A inv2 \in Invocations, fault2 \in Faults :
                      PublishAfter(r, h, inv2, update_existing, fault2, "ok").calls
                          = r.calls

\* The entry of some hash names a gist that is gone: the update is answered
\* 404 and fails; and a create fails on an error response.
C4_Witness ==
    /\ \E h \in DOMAIN Loaded, inv \in Invocations :
          LET r == Publish(h, inv, TRUE, "", TRUE, "none", "ok")
          IN  /\ Loaded[h].gist_id \notin DOMAIN gists
              /\ r.requests = << <<"PATCH", Loaded[h].gist_id, 404>> >>
              /\ ~r.result.ok
    /\ \E h \in Hashes \ DOMAIN Loaded, inv \in Invocations :
          LET r == Publish(h, inv, TRUE, "", TRUE, "http_error", "ok")
          IN  r.requests = << <<"POST", 0, 500>> >> /\ ~r.result.ok

\* One run of "delete_gist.py --thread-hash" from the present state.
DeleteByHash(thread_hash, confirm, answer, fault, save_outcome) ==
    delete_thread_by_hash(Loaded, config, disk, gists, thread_hash, confirm, answer, fault, save_outcome)

\* One run of "delete_gist.py --gist-id" from the present state.
DeleteById(gist_id, force, answer, fault) ==
    delete_by_id(Loaded, config, disk, gists, gist_id, force, answer, fault)

\* One run of "delete_gist.py --cleanup" from the present state.
Cleanup(dry_run, list_fault, answer, faults) ==
    cleanup_orphaned_gists(Loaded, config, disk, gists, nextId, dry_run, list_fault, answer, faults)

\* The faults the deletes of one cleanup run may meet.
CleanupFaults(dry_run, list_fault, answer) ==
    [DeletesAttempted(Loaded, config, disk, gists, nextId, dry_run, list_fault, answer) -> Faults]

Range(seq) == { seq[k] : k \in 1..Len(seq) }

\* The answers that are a success or a not-found.
Answered(requests) ==
    requests # <<>> /\ requests[1][1] = "DELETE" /\ requests[1][3] \in {204, 404}

\* C5: delete_thread_by_hash removes the entry and saves the index exactly
\* when the remote delete call was answered 204 or 404 (a gist already gone
\* counts as success); otherwise it reports failure and the entry stays.
C5_DeleteByHash ==
    \A h \in DOMAIN Loaded, confirm \in BOOLEAN, answer \in Answers,
       fault \in Faults, save_outcome \in SaveOutcomes :
        LET r == DeleteByHash(h, confirm, answer, fault, save_outcome)
        IN  /\ h \notin DOMAIN r.threads <=> Answered(r.requests)
            /\ Answered(r.requests) =>
                /\ r.success
                /\ r.threads = RemoveEntry(Loaded, h)
                /\ SavedOnce(r, save_outcome)
                /\ r.requests[1][2] = Loaded[h].gist_id
            /\ ~Answered(r.requests) =>
                /\ ~r.success
                /\ r.threads = Loaded
                /\ r.file = disk
                /\ r.saves = <<>>
                /\ r.gists = gists

\* An entry names a gist that is already gone; the delete is answered 404,
\* succeeds and removes the stale entry.
C5_Witness ==
    \E h \in DOMAIN Loaded :
        LET r == DeleteByHash(h, FALSE, "yes", "none", "ok")
        IN  /\ Loaded[h].gist_id \notin DOMAIN gists
            /\ r.requests = << <<"DELETE", Loaded[h].gist_id, 404>> >>
            /\ r.success
            /\ h \notin DOMAIN r.threads
            /\ r.file = JsonFile(r.threads)

\* C6: delete_thread_by_hash of a hash without an entry fails as not found
\* locally, makes no remote call and leaves the Index Store as it was.
C6_NotFoundLocally ==
    \A h \in Hashes \ DOMAIN Loaded, confirm \in BOOLEAN, answer \in Answers,
       fault \in Faults, save_outcome \in SaveOutcomes :
        LET r == DeleteByHash(h, confirm, answer, fault, save_outcome)
        IN  /\ r.outcome = "not_found_locally"
            /\ ~r.success
            /\ r.calls = <<>>
            /\ r.requests = <<>>
            /\ r.prompts = 0
            /\ r.threads = Loaded
            /\ r.file = disk
            /\ r.saves = <<>>
            /\ r.gists = gists

\* The index holds an entry for one hash and none for the other, the token
\* is set and the gist of the entry exists: deleting the other hash fails
\* as not found locally.
C6_Witness ==
    /\ config.github_token # None
    /\ \E h \in Hashes \ DOMAIN Loaded, k \in DOMAIN Loaded :
          /\ Loaded[k].gist_id \in DOMAIN gists
          /\ DeleteByHash(h, FALSE, "yes", "none", "ok").outcome = "not_found_locally"

\* C7: the --gist-id command sends the delete for that id and nothing else,
\* and the Index Store plays no part: the in-memory and the persisted index
\* are as before, and the run does the same with an empty index.
C7_DeleteByIdBypassesIndex ==
    \A gist_id \in GistIds, force \in BOOLEAN, answer \in Answers, fault \in Faults :
        LET r == DeleteById(gist_id, force, answer, fault)
            blind == delete_by_id(EmptyThreads, config, MissingFile, gists, gist_id, force, answer, fault)
            called == force \/ Confirmed(answer)
        IN  /\ r.threads = Loaded
            /\ r.file = disk
            /\ r.calls = IF called THEN << <<"delete_gist", gist_id>> >> ELSE <<>>
            /\ Len(r.requests) <= 1
            /\ OnlyRequests(r.requests, "DELETE", gist_id)
            /\ (called /\ config.github_token # None) => Len(r.requests) = 1
            /\ r.requests = blind.requests
            /\ r.gists = blind.gists
            /\ r.success = blind.success

\* The gist of an index entry is deleted by its id: the gist goes and the
\* entry that names it stays in the index.
C7_Witness ==
    \E h \in DOMAIN Loaded :
        LET r == DeleteById(Loaded[h].gist_id, TRUE, "yes", "none")
        IN  /\ Loaded[h].gist_id \in DOMAIN gists
            /\ r.success
            /\ Loaded[h].gist_id \notin DOMAIN r.gists
            /\ h \in DOMAIN r.threads
            /\ r.file = disk

\* The naming convention as C8 words it; the fixed prefix is taken at its
\* widest, as the marker anywhere in the description.
CarriesDescriptionPrefix(description) ==
    /\ ~description.null
    /\ \E i \in 1..Len(description.words) : description.words[i] = DescriptionMarker

IsArtifactFileSet(files) == files = ArtifactFiles

MatchesNamingConvention(gist) ==
    CarriesDescriptionPrefix(gist.description) \/ IsArtifactFileSet(gist.files)

Referenced(threads) == { threads[h].gist_id : h \in DOMAIN threads }

\* C8: with a token and an answered listing, cleanup_orphaned_gists computes
\* as the orphan set exactly the remote gists that match the naming
\* convention (the description carries the fixed marker, or the file set is
\* the fixed artifact file names) and that no index entry references.
C8_OrphanSetExact ==
    \A dry_run \in BOOLEAN :
        config.github_token # None =>
            LET r == Cleanup(dry_run, "none", "no", CHOOSE f \in CleanupFaults(dry_run, "none", "no") : TRUE)
            IN  /\ r.outcome \in {"reported", "cancelled"}
                /\ Range(r.orphans) =
                      { i \in DOMAIN gists : /\ MatchesNamingConvention(gists[i])
                                             /\ i \notin Referenced(Loaded) }

\* C9: in dry-run mode cleanup_orphaned_gists makes no delete call and asks
\* for no confirmation; the remote gists and the Index Store are unchanged.
C9_DryRunFrame ==
    \A list_fault \in Faults, answer \in Answers :
    \A faults \in CleanupFaults(TRUE, list_fault, answer) :
        LET r == Cleanup(TRUE, list_fault, answer, faults)
        IN  /\ r.calls = <<>>
            /\ NoRequest(r.requests, "DELETE")
            /\ r.prompts = 0
            /\ r.gists = gists
            /\ r.threads = Loaded
            /\ r.file = disk
            /\ r.deleted_count = 0 /\ r.failed_count = 0

\* A dry run that reports an orphan while the index tracks another gist.
C9_Witness ==
    \E faults \in CleanupFaults(TRUE, "none", "yes") :
        LET r == Cleanup(TRUE, "none", "yes", faults)
        IN  /\ r.outcome = "reported"
            /\ r.orphans # <<>>
            /\ Referenced(Loaded) \cap DOMAIN gists # {}

----------------------------------------------------------------------------
(* The index file as the commands may find it *)

\* The states of the backing file a command can be started on.
IndexFiles ==
    {MissingFile, UnreadableFile, NotJsonFile, NoThreadsFile, JsonFile(EmptyThreads)}

InitAnyFile ==
    /\ disk \in IndexFiles
    /\ config = DefaultConfig
    /\ gists = NoGists
    /\ nextId = 1
    /\ procs = NoProcs
    /\ ledger = NoLedger
    /\ session = NoSession
    /\ rendered = NotRendered
    /\ host = HomeZone

SpecAnyFile == InitAnyFile /\ [][Next]_vars

\* C11: whatever the state of the index file (missing, unreadable, not JSON,
\* or JSON without a usable "threads" mapping), load_index yields an index
\* with an empty "threads" mapping, with a warning for a file that is there,
\* and a publish that follows does not raise and goes on as a fresh create.
C11_CorruptIndexTolerated ==
    disk.kind # "json" =>
        /\ HasThreadsKey(disk)
        /\ Loaded = EmptyThreads
        /\ disk.kind # "missing" => WarnsOnLoad(disk)
        /\ \A h \in Hashes, inv \in Invocations, typed \in Typings :
              LET r == Publish(h, inv, TRUE, typed, TRUE, "none", "ok")
              IN  /\ ~r.raised
                  /\ r.calls = << <<"create_gist", 0>> >>
                  /\ (config.github_token # None \/ typed # "") =>
                        /\ r.result.ok
                        /\ r.action = "created"
                        /\ r.file = JsonFile(r.threads)

----------------------------------------------------------------------------
(* Saves that stop half way *)

\* publish_to_gist.py main, the write of save_index stopping after the
\* truncation (disk full, or the process killed during json.dump).
PublishCutRun ==
    \E thread_hash \in Hashes, inv \in Invocations, update_existing \in BOOLEAN :
        LET r == publish_thread(load_index(disk), config, disk, gists, nextId,
                                thread_hash, inv.title, inv.project_path,
                                inv.session_file, update_existing, "", TRUE,
                                "none", "cut", inv.now)
        IN  /\ r.saves # <<>>
            /\ r.nextId <= MaxGists + 1
            /\ disk' = r.file
            /\ config' = r.config
            /\ gists' = r.gists
            /\ nextId' = r.nextId
            /\ UNCHANGED <<procs, ledger, session, rendered, host>>

\* delete_gist.py main, --thread-hash, the write of save_index stopping
\* after the truncation.
DeleteByHashCutRun ==
    \E thread_hash \in Hashes :
        LET r == delete_thread_by_hash(load_index(disk), config, disk, gists,
                                       thread_hash, FALSE, "yes", "none", "cut")
        IN  /\ r.saves # <<>>
            /\ disk' = r.file
            /\ gists' = r.gists
            /\ UNCHANGED <<config, nextId, procs, ledger, session, rendered, host>>

NextCut ==
    \/ Next
    \/ PublishCutRun
    \/ DeleteByHashCutRun

SpecCut == Init /\ [][NextCut]_vars

\* C12: save_index is atomic with respect to crashes: at every moment the
\* index file, once written, holds a complete mapping (the previous or the
\* new one), never a truncated or unreadable text.
C12_SaveIsAtomic == disk.kind \in {"missing", "json"}

----------------------------------------------------------------------------
(* Publish runs side by side *)

\* Both runs find the token in the config; nothing is published yet.
InitConcurrent ==
    /\ disk = MissingFile
    /\ config = [DefaultConfig EXCEPT !.github_token = Token]
    /\ gists = NoGists
    /\ nextId = 1
    /\ procs = NoProcs
    /\ ledger = NoLedger
    /\ session = NoSession
    /\ rendered = NotRendered
    /\ host = HomeZone

\* How many processes have saved the index so far.
Saved == Cardinality({q \in Procs : procs[q].rank > 0})

\* GistPublisher.__init__: the process reads the index file into memory
\* ("seen": how many saves of the other processes the file it reads holds).
ProcLoad(p) ==
    /\ procs[p].pc = "idle"
    /\ \E thread_hash \in Hashes :
          procs' = [procs EXCEPT ![p] = [pc |-> "loaded", hash |-> thread_hash,
                                         index |-> load_index(disk),
                                         created |-> 0, rank |-> 0,
                                         seen |-> Saved, orphans |-> <<>>]]
    /\ UNCHANGED <<disk, config, gists, nextId, ledger, session, rendered, host>>

\* publish_thread up to its save: the remote call, decided on the copy of
\* the index the process loaded, and the change of that copy.
ProcCall(p) ==
    /\ procs[p].pc = "loaded"
    /\ \E inv \in Invocations, fault \in Faults :
          LET r == publish_thread(procs[p].index, config, disk, gists, nextId,
                                  procs[p].hash, inv.title, inv.project_path,
                                  inv.session_file, TRUE, "", TRUE, fault, "ok",
                                  inv.now)
          IN  /\ r.nextId <= MaxGists + 1
              /\ gists' = r.gists
              /\ nextId' = r.nextId
              /\ procs' = [procs EXCEPT ![p] =
                    [@ EXCEPT !.pc = IF r.result.ok THEN "called" ELSE "done",
                              !.index = r.threads,
                              !.created = IF r.result.ok /\ r.action = "created"
                                          THEN r.result.id ELSE 0]]
    /\ UNCHANGED <<disk, config, ledger, session, rendered, host>>

\* The save_index call of publish_thread: the copy of the process replaces
\* the file.
ProcSave(p) ==
    /\ procs[p].pc = "called"
    /\ disk' = save_index(procs[p].index, disk, "ok")
    /\ procs' = [procs EXCEPT ![p] = [@ EXCEPT !.pc = "done", !.rank = Saved + 1]]
    /\ UNCHANGED <<config, gists, nextId, ledger, session, rendered, host>>

NextConcurrent == \E p \in Procs : ProcLoad(p) \/ ProcCall(p) \/ ProcSave(p)

SpecConcurrent == InitConcurrent /\ [][NextConcurrent]_vars

\* Both runs are over, both created a gist for the same hash.
BothCreated(p, q) ==
    /\ p # q
    /\ procs[p].pc = "done" /\ procs[q].pc = "done"
    /\ procs[p].hash = procs[q].hash
    /\ procs[p].created # 0 /\ procs[q].created # 0
    /\ procs[p].rank < procs[q].rank

\* C13: two concurrent publish runs of one hash that both loaded an index
\* without an entry for it each create a gist; once both have saved, the
\* index file holds one entry for the hash, the entry of the run that saved
\* last, and the gist of the other run is referenced by no entry.
C13_LastWriterWins ==
    \A p \in Procs, q \in Procs :
        BothCreated(p, q) =>
            LET h == procs[q].hash
            IN  /\ procs[p].created # procs[q].created
                /\ {procs[p].created, procs[q].created} \subseteq DOMAIN gists
                /\ disk = JsonFile(procs[q].index)
                /\ h \in DOMAIN Loaded
                /\ Loaded[h] = procs[q].index[h]
                /\ Loaded[h].gist_id = procs[q].created
                /\ procs[p].created \notin KnownGistIds(Loaded)

\* Both runs loaded the empty index before either saved, each created its
\* gist, and the second save replaced the first.
C13_Witness ==
    \E p \in Procs, q \in Procs :
        /\ BothCreated(p, q)
        /\ procs[p].rank = 1 /\ procs[q].rank = 2
        /\ DOMAIN gists = {1, 2}
        /\ DOMAIN Loaded = {procs[q].hash}

----------------------------------------------------------------------------
(* A create whose save fails *)

\* The outcomes of save_index other than a complete write.
FailedSaves == {"failed", "cut"}

\* C14 as claimed: when the create succeeds and the save of the index fails,
\* the new gist is not referenced by the index file, and the next publish of
\* the same thread creates again, so that two gists exist for the hash.
C14_NextPublishCreatesAgain ==
    \A h \in Hashes, forced \in BOOLEAN, inv \in Invocations, typed \in Typings,
       save_outcome \in FailedSaves :
        LET r1 == Publish(h, inv, ~forced, typed, TRUE, "none", save_outcome)
            r2 == PublishAfter(r1, h, inv, TRUE, "none", "ok")
        IN  (r1.result.ok /\ r1.action = "created") =>
                /\ r1.result.id \notin KnownGistIds(load_index(r1.file))
                /\ r2.calls = << <<"create_gist", 0>> >>
                /\ r2.result.ok
                /\ r2.result.id # r1.result.id
                /\ {r1.result.id, r2.result.id} \subseteq DOMAIN r2.gists

\* C14 as amended: when the create succeeds and the save of the index fails,
\* the new gist is not referenced by the index file; the next publish of the
\* same thread creates again, leaving two gists for the hash, exactly when
\* the index file then holds no entry for the hash or the publish is forced;
\* when the file still holds an older entry for the hash (the failed save
\* followed a forced create) a non-forced publish updates the gist of that
\* older entry and creates nothing.
C14_UntrackedAfterFailedSave ==
    \A h \in Hashes, forced1 \in BOOLEAN, forced2 \in BOOLEAN, inv \in Invocations,
       typed \in Typings, save_outcome \in FailedSaves :
        LET r1 == Publish(h, inv, ~forced1, typed, TRUE, "none", save_outcome)
            r2 == PublishAfter(r1, h, inv, ~forced2, "none", "ok")
            left == load_index(r1.file)
        IN  (r1.result.ok /\ r1.action = "created") =>
                /\ r1.saves = <<save_outcome>>
                /\ r1.result.id \in DOMAIN r1.gists
                /\ r1.result.id \notin KnownGistIds(left)
                /\ left = IF save_outcome = "cut" THEN EmptyThreads ELSE Loaded
                /\ (h \notin DOMAIN left \/ forced2) =>
                      /\ r2.calls = << <<"create_gist", 0>> >>
                      /\ r2.result.ok
                      /\ r2.action = "created"
                      /\ r2.result.id # r1.result.id
                      /\ {r1.result.id, r2.result.id} \subseteq DOMAIN r2.gists
                      /\ load_index(r2.file)[h].gist_id = r2.result.id
                /\ (h \in DOMAIN left /\ ~forced2) =>
                      /\ r2.calls = << <<"update_gist", left[h].gist_id>> >>
                      /\ r2.nextId = r1.nextId
                      /\ DOMAIN r2.gists = DOMAIN r1.gists
                      /\ r1.result.id \notin KnownGistIds(load_index(r2.file))

\* A first publish whose save fails, from an index without the hash: the
\* file is as before, and the publish that follows creates a second gist.
C14_Witness ==
    \E h \in Hashes \ DOMAIN Loaded, inv \in Invocations :
        LET r1 == Publish(h, inv, TRUE, "", TRUE, "none", "failed")
            r2 == PublishAfter(r1, h, inv, TRUE, "none", "ok")
        IN  /\ r1.result.ok
            /\ r1.file = disk
            /\ r2.action = "created"
            /\ Cardinality(DOMAIN r2.gists) = Cardinality(DOMAIN gists) + 2

----------------------------------------------------------------------------
(* One operator, saves that succeed: the life of an index entry *)

\* What a publish that returned a result adds to the ledger of its hash.
AfterPublish(entry, action) ==
    IF action = "created"
    THEN [published |-> TRUE, deleted |-> FALSE]
    ELSE [entry EXCEPT !.published = TRUE]

\* publish_to_gist.py main, with a save that succeeds.
OpPublish ==
    \E thread_hash \in Hashes, inv \in Invocations, update_existing \in BOOLEAN :
    \E typed \in IF config.github_token = None THEN {"", Token} ELSE {""} :
    \E cfg_save_ok \in IF typed = "" THEN {TRUE} ELSE BOOLEAN :
    \E fault \in IF ensure_github_token(config, typed, cfg_save_ok).token = None
                 THEN {"none"} ELSE Faults :
        LET r == publish_thread(load_index(disk), config, disk, gists, nextId,
                                thread_hash, inv.title, inv.project_path,
                                inv.session_file, update_existing, typed,
                                cfg_save_ok, fault, "ok", inv.now)
        IN  /\ r.nextId <= MaxGists + 1
            /\ disk' = r.file
            /\ config' = r.config
            /\ gists' = r.gists
            /\ nextId' = r.nextId
            /\ ledger' = IF r.result.ok
                         THEN [ledger EXCEPT ![thread_hash] = AfterPublish(@, r.action)]
                         ELSE ledger
            /\ UNCHANGED <<procs, session, rendered, host>>

\* delete_gist.py main, --thread-hash, with a save that succeeds.
OpDeleteByHash ==
    \E thread_hash \in Hashes, force \in BOOLEAN :
    \E answer \in IF force THEN {"yes"} ELSE Answers :
    \E fault \in IF Confirmed(answer) THEN Faults ELSE {"none"} :
        LET r == delete_thread_by_hash(load_index(disk), config, disk, gists,
                                       thread_hash, ~force, answer, fault, "ok")
        IN  /\ disk' = r.file
            /\ gists' = r.gists
            /\ ledger' = IF r.success
                         THEN [ledger EXCEPT ![thread_hash].deleted = TRUE]
                         ELSE ledger
            /\ UNCHANGED <<config, nextId, procs, session, rendered, host>>

NextLifecycle ==
    \/ OpPublish
    \/ OpDeleteByHash
    \/ DeleteByIdRun
    \/ CleanupRun
    \/ ForeignCreate

SpecLifecycle == Init /\ [][NextLifecycle]_vars

\* The entry of the hash is not the same in the two mappings.
Differs(before, after, h) ==
    \/ (h \in DOMAIN before) # (h \in DOMAIN after)
    \/ h \in DOMAIN before /\ h \in DOMAIN after /\ before[h] # after[h]

\* C15: with one operator and saves that succeed, the index file has an
\* entry for h exactly when some publish of h succeeded and no delete by hash
\* of h succeeded since the last successful create of h; an entry appears
\* only by a successful create of its hash, changes only by a successful
\* publish of its hash, and goes only by a successful delete by hash.
C15_EntryLifecycle ==
    /\ \A h \in Hashes :
          h \in DOMAIN Loaded <=> (ledger[h].published /\ ~ledger[h].deleted)
    /\ \A h \in Hashes, k \in Hashes, inv \in Invocations, update_existing \in BOOLEAN,
          typed \in Typings, fault \in Faults :
          LET r == Publish(k, inv, update_existing, typed, TRUE, fault, "ok")
              after == load_index(r.file)
          IN  /\ Differs(Loaded, after, h) => (k = h /\ r.result.ok)
              /\ h \in DOMAIN Loaded => h \in DOMAIN after
              /\ (h \notin DOMAIN Loaded /\ h \in DOMAIN after) => r.action = "created"
              /\ (k = h /\ r.result.ok) => h \in DOMAIN after
    /\ \A h \in Hashes, k \in Hashes, confirm \in BOOLEAN, answer \in Answers,
          fault \in Faults :
          LET r == DeleteByHash(k, confirm, answer, fault, "ok")
              after == load_index(r.file)
          IN  /\ Differs(Loaded, after, h) => (k = h /\ r.success /\ h \notin DOMAIN after)
              /\ (k = h /\ r.success) => h \notin DOMAIN after
    /\ \A gist_id \in GistIds, force \in BOOLEAN, answer \in Answers, fault \in Faults :
          DeleteById(gist_id, force, answer, fault).file = disk
    /\ \A dry_run \in BOOLEAN, list_fault \in Faults, answer \in Answers :
       \A faults \in CleanupFaults(dry_run, list_fault, answer) :
          Cleanup(dry_run, list_fault, answer, faults).file = disk

\* One hash was published and then deleted by hash, the other was published
\* and republished and is in the index.
C15_Witness ==
    \E h \in Hashes, k \in Hashes :
        /\ ledger[h].published /\ ledger[h].deleted
        /\ h \notin DOMAIN Loaded
        /\ k \in DOMAIN Loaded
        /\ Loaded[k].last_published_at = "t2"

----------------------------------------------------------------------------
(* The visibility flag of the config *)

\* The operator edits gists_private_by_default in the config file.
EditConfig ==
    /\ config' = [config EXCEPT !.gists_private_by_default = ~@]
    /\ UNCHANGED <<disk, gists, nextId, procs, ledger, session, rendered, host>>

NextVisibility ==
    \/ PublishRun
    \/ DeleteByHashRun
    \/ EditConfig

SpecVisibility == Init /\ [][NextVisibility]_vars

\* C16: a create carries public = not gists_private_by_default, as the
\* config reads when the create is made; no publish changes the visibility
\* of a gist that exists, whatever the flag reads at that time.
C16_VisibilityAtCreateOnly ==
    \A h \in Hashes, update_existing \in BOOLEAN, inv \in Invocations,
       typed \in Typings, fault \in Faults, save_outcome \in SaveOutcomes :
        LET r == Publish(h, inv, update_existing, typed, TRUE, fault, save_outcome)
        IN  /\ DOMAIN gists \subseteq DOMAIN r.gists
            /\ \A id \in DOMAIN gists : r.gists[id].public = gists[id].public
            /\ (r.result.ok /\ r.action = "created") =>
                  /\ r.result.id \notin DOMAIN gists
                  /\ r.gists[r.result.id].public = ~config.gists_private_by_default
            /\ (r.result.ok /\ r.action = "updated") =>
                  /\ DOMAIN r.gists = DOMAIN gists
                  /\ r.requests = << <<"PATCH", r.result.id, 200>> >>

\* A gist was created public; the config now asks for private gists, and an
\* update of that gist succeeds and leaves it public.
C16_Witness ==
    \E h \in DOMAIN Loaded, inv \in Invocations :
        LET r == Publish(h, inv, TRUE, "", TRUE, "none", "ok")
            id == Loaded[h].gist_id
        IN  /\ config.gists_private_by_default
            /\ id \in DOMAIN gists
            /\ gists[id].public
            /\ r.action = "updated"
            /\ r.gists[id].public
            /\ r.gists[id].description = Description(inv.title)

----------------------------------------------------------------------------
(* Exit statuses *)

\* publish_to_gist.py main: "if result: ... else: sys.exit(1)"; an exception
\* that nothing catches ends the interpreter with status 1.
PublishExit(r) == IF r.raised \/ ~r.result.ok THEN 1 ELSE 0

\* publish_to_gist.py main, --thread-hash: exit 1 when the hash has no entry.
LookupExit(threads, thread_hash) == IF thread_hash \in DOMAIN threads THEN 0 ELSE 1

\* delete_gist.py main, --thread-hash: "if result and result.get('success')".
DeleteByHashExit(r) == IF r.success THEN 0 ELSE 1

\* delete_gist.py main, --gist-id: a declined prompt returns, a failed delete
\* exits 1.
DeleteByIdExit(r) == IF r.outcome = "delete_failed" THEN 1 ELSE 0

\* delete_gist.py main, --cleanup: the value cleanup_orphaned_gists returns
\* is dropped and main returns; only an exception gives another status.
CleanupExit(r) == IF r.outcome = "raised" THEN 1 ELSE 0

\* C17: every command that ends in an unrecoverable failure (a failed remote
\* call, the failed listing of the cleanup included, a missing token, nothing
\* found) ends with a non-zero exit status.
C17_FailureExitsNonZero ==
    /\ \A h \in Hashes, update_existing \in BOOLEAN, inv \in Invocations,
          typed \in Typings, fault \in Faults :
          LET r == Publish(h, inv, update_existing, typed, TRUE, fault, "ok")
          IN  ~r.result.ok => PublishExit(r) # 0
    /\ \A h \in Hashes \ DOMAIN Loaded : LookupExit(Loaded, h) # 0
    /\ \A h \in Hashes, fault \in Faults :
          LET r == DeleteByHash(h, FALSE, "yes", fault, "ok")
          IN  ~r.success => DeleteByHashExit(r) # 0
    /\ \A gist_id \in GistIds, fault \in Faults :
          LET r == DeleteById(gist_id, TRUE, "yes", fault)
          IN  ~r.success => DeleteByIdExit(r) # 0
    /\ \A dry_run \in BOOLEAN, list_fault \in Faults :
       \A faults \in CleanupFaults(dry_run, list_fault, "no") :
          LET r == Cleanup(dry_run, list_fault, "no", faults)
          IN  r.outcome \in {"no_token", "list_failed", "raised"} => CleanupExit(r) # 0

----------------------------------------------------------------------------
(* Commands run without a token *)

\* The token is taken out of the config file (revoked, or the file removed).
ForgetToken ==
    /\ config.github_token # None
    /\ config' = [config EXCEPT !.github_token = None]
    /\ UNCHANGED <<disk, gists, nextId, procs, ledger, session, rendered, host>>

NextToken ==
    \/ PublishRun
    \/ DeleteByHashRun
    \/ ForeignCreate
    \/ ForgetToken

SpecToken == Init /\ [][NextToken]_vars

\* What the operator does at the publisher's prompt that yields no token:
\* an empty answer, or a token that save_config fails to store.
NoTokenTypings == {<<"", TRUE>>, <<Token, FALSE>>}

\* C18: when the config holds no token (and, for the publisher, the prompt
\* yields none or the token cannot be stored), create, update, delete and
\* list fail without any request to the remote system, and the index in
\* memory and on disk is as before.
C18_NoTokenNoRemoteCall ==
    config.github_token = None =>
        /\ \A h \in Hashes, update_existing \in BOOLEAN, inv \in Invocations,
              ty \in NoTokenTypings, fault \in Faults, save_outcome \in SaveOutcomes :
              LET r == Publish(h, inv, update_existing, ty[1], ty[2], fault, save_outcome)
              IN  /\ r.requests = <<>>
                  /\ ~r.result.ok
                  /\ PublishExit(r) = 1
                  /\ r.threads = Loaded /\ r.file = disk /\ r.saves = <<>>
                  /\ r.gists = gists /\ r.nextId = nextId
                  /\ r.calls = IF TakesUpdateBranch(Loaded, h, update_existing)
                               THEN << <<"update_gist", Loaded[h].gist_id>> >>
                               ELSE << <<"create_gist", 0>> >>
        /\ \A h \in Hashes, confirm \in BOOLEAN, answer \in Answers, fault \in Faults,
              save_outcome \in SaveOutcomes :
              LET r == DeleteByHash(h, confirm, answer, fault, save_outcome)
              IN  /\ r.requests = <<>>
                  /\ ~r.success
                  /\ DeleteByHashExit(r) = 1
                  /\ r.threads = Loaded /\ r.file = disk /\ r.saves = <<>>
                  /\ r.gists = gists
        /\ \A gist_id \in GistIds, force \in BOOLEAN, answer \in Answers, fault \in Faults :
              LET r == DeleteById(gist_id, force, answer, fault)
              IN  /\ r.requests = <<>>
                  /\ ~r.success
                  /\ (force \/ Confirmed(answer)) => DeleteByIdExit(r) = 1
                  /\ r.threads = Loaded /\ r.file = disk
                  /\ r.gists = gists
        /\ \A dry_run \in BOOLEAN, list_fault \in Faults, answer \in Answers :
           \A faults \in CleanupFaults(dry_run, list_fault, answer) :
              LET r == Cleanup(dry_run, list_fault, answer, faults)
              IN  /\ r.outcome = "no_token"
                  /\ r.requests = <<>>
                  /\ r.calls = <<>>
                  /\ r.threads = Loaded /\ r.file = disk
                  /\ r.gists = gists

\* The token is gone while the index tracks a gist that exists: the update
\* and the delete by hash of that thread are both attempted and send nothing.
C18_Witness ==
    /\ config.github_token = None
    /\ \E h \in DOMAIN Loaded, inv \in Invocations :
          /\ Loaded[h].gist_id \in DOMAIN gists
          /\ Publish(h, inv, TRUE, Token, FALSE, "none", "ok").calls =
                << <<"update_gist", Loaded[h].gist_id>> >>
          /\ DeleteByHash(h, FALSE, "yes", "none", "ok").calls =
                << <<"delete_gist", Loaded[h].gist_id>> >>

----------------------------------------------------------------------------
(* render_thread.py *)

\* Longest session log considered, in lines.
MaxLines == 3

\* JSON values as a line of the log carries them: a key that is absent, null,
\* a string (its characters), a number (its digits), a list (its elements).
NoValue == [type |-> "absent", chars |-> <<>>]
Null == [type |-> "null", chars |-> <<>>]
Text(chars) == [type |-> "string", chars |-> chars]
Number(digits) == [type |-> "number", chars |-> <<digits>>]
Blocks(elements) == [type |-> "list", chars |-> elements]

\* Python's truth value of a JSON value.
Truthy(value) ==
    CASE value.type = "number" -> value.chars # <<"0">>
      [] value.type \in {"string", "list"} -> value.chars # <<>>
      [] OTHER -> FALSE

\* The lines of a session log, by what the parser makes of them: blank after
\* strip(); text json.loads rejects; a JSON object, with its role, timestamp
\* and content and with its "tool_calls" absent, a list of objects ("list":
\* one call with its three keys, "bare": one call without keys), or null; JSON
\* that is not an object (a number, a string, a list).
BlankLine ==
    [kind |-> "blank", role |-> None, timestamp |-> NoValue, content |-> NoValue,
     tool_calls |-> "absent"]
MalformedLine ==
    [kind |-> "malformed", role |-> None, timestamp |-> NoValue, content |-> NoValue,
     tool_calls |-> "absent"]
ScalarLine ==
    [kind |-> "scalar", role |-> None, timestamp |-> NoValue, content |-> NoValue,
     tool_calls |-> "absent"]
ObjectLine(role, timestamp, content, tool_calls) ==
    [kind |-> "object", role |-> role, timestamp |-> timestamp, content |-> content,
     tool_calls |-> tool_calls]

Hi == <<"h", "i">>

ObjectLines ==
    { ObjectLine("user", NoValue, Text(Hi), "absent"),
      ObjectLine("assistant", NoValue, Text(Hi), "list"),
      ObjectLine("user", NoValue, Text(Hi), "null") }

LineKinds == {BlankLine, MalformedLine, ScalarLine} \cup ObjectLines

\* The readable logs of up to MaxLines lines drawn from a set of lines.
LogsOf(lines) ==
    { [access |-> "ok", lines |-> l] : l \in UNION { [1..n -> lines] : n \in 0..MaxLines } }

\* The session files: one that open() refuses, one whose bytes do not decode,
\* and the readable logs of up to MaxLines lines.
SessionLogs ==
    { [access |-> "io_error", lines |-> <<>>], [access |-> "undecodable", lines |-> <<>>] }
    \cup LogsOf(LineKinds)

\* normalize_message raises on msg.get of a value that is not a dict
\* (AttributeError) and on the loop over a "tool_calls" that is null (TypeError).
NormalizeRaises(line) == line.kind = "scalar" \/ line.tool_calls = "null"

\* datetime.fromtimestamp(epoch).isoformat() on a host in time zone tz: the
\* wall-clock time of the instant in that zone, without an offset.
LocalTime(epoch, tz) ==
    CASE epoch = "1700000000" /\ tz = "UTC" -> "2023-11-14T22:13:20"
      [] epoch = "1700000000" /\ tz = "Asia/Tokyo" -> "2023-11-15T07:13:20"
      [] epoch = "1700003600" /\ tz = "UTC" -> "2023-11-14T23:13:20"
      [] epoch = "1700003600" /\ tz = "Asia/Tokyo" -> "2023-11-15T08:13:20"

\* The timestamp of a message: a number that is not zero is read as a Unix
\* epoch and converted in the time zone of the host, a string is kept, a
\* value Python takes for false is kept as it is, any other value gives None.
NormalizedTimestamp(timestamp) ==
    IF timestamp.type = "absent" THEN Null
    ELSE IF ~Truthy(timestamp) THEN timestamp
    ELSE IF timestamp.type = "number" THEN Text(<<LocalTime(timestamp.chars[1], host)>>)
    ELSE IF timestamp.type = "string" THEN timestamp
    ELSE Null

\* The calls a "tool_calls" list holds, a key a call lacks being None.
RawToolCalls(tool_calls) ==
    CASE tool_calls = "list" -> << [name |-> "Bash", input |-> "ls", output |-> "ok"] >>
      [] tool_calls = "bare" -> << [name |-> None, input |-> None, output |-> None] >>
      [] OTHER -> <<>>

\* dict.get(key, default).
Get(value, default) == IF value = None THEN default ELSE value

NormalizedCall(tool_call) ==
    [name |-> Get(tool_call.name, "unknown"),
     input |-> Get(tool_call.input, ""),
     output |-> Get(tool_call.output, "")]

\* normalize_message: the message of a JSON object, with its line number.
normalize_message(line, line_num) ==
    [role |-> Get(line.role, "unknown"),
     timestamp |-> NormalizedTimestamp(line.timestamp),
     content |-> IF line.content.type = "absent" THEN Text(<<>>) ELSE line.content,
     tool_calls |-> [k \in DOMAIN RawToolCalls(line.tool_calls) |->
                        NormalizedCall(RawToolCalls(line.tool_calls)[k])],
     line_number |-> line_num]

\* The loop of parse_jsonl_session from line line_num on: blank lines are
\* passed over, a JSONDecodeError gives a warning with the line number, any
\* other exception leaves the function.
RECURSIVE ParseLines(_, _)
ParseLines(lines, line_num) ==
    IF lines = <<>>
    THEN [raised |-> FALSE, messages |-> <<>>, warnings |-> <<>>]
    ELSE LET line == Head(lines)
             rest == ParseLines(Tail(lines), line_num + 1)
         IN  IF line.kind = "blank" THEN rest
             ELSE IF line.kind = "malformed"
             THEN [rest EXCEPT !.warnings = <<line_num>> \o @]
             ELSE IF NormalizeRaises(line)
             THEN [raised |-> TRUE, messages |-> <<>>, warnings |-> <<>>]
             ELSE [rest EXCEPT !.messages = <<normalize_message(line, line_num)>> \o @]

\* parse_jsonl_session: None ("failed") on IOError, else the messages.  A
\* UnicodeDecodeError is not an IOError and leaves the function.
parse_jsonl_session(log) ==
    IF log.access = "io_error"
    THEN [failed |-> TRUE, raised |-> FALSE, messages |-> <<>>, warnings |-> <<>>]
    ELSE IF log.access = "undecodable"
    THEN [failed |-> FALSE, raised |-> TRUE, messages |-> <<>>, warnings |-> <<>>]
    ELSE LET p == ParseLines(log.lines, 1)
         IN  [failed |-> FALSE, raised |-> p.raised,
              messages |-> IF p.raised THEN <<>> ELSE p.messages,
              warnings |-> p.warnings]

\* json.dumps(..., sort_keys=True, separators=(',', ':')), as the sequence of
\* the tokens it writes: a string between quotes, null, a number by its
\* digits, a list between brackets, the keys of an object in sorted order.
Quote == "\""
EncodeString(string) == <<Quote, string, Quote>>
EncodeKey(key) == EncodeString(key) \o <<":">>
EncodeValue(value) ==
    CASE value.type = "null" -> <<"null">>
      [] value.type = "string" -> <<Quote>> \o value.chars \o <<Quote>>
      [] value.type = "number" -> value.chars
      [] value.type = "list" -> <<"[">> \o value.chars \o <<"]">>

\* The encodings of the items of a list, with the item separator between them.
RECURSIVE Joined(_)
Joined(encodings) ==
    IF encodings = <<>> THEN <<>>
    ELSE IF Len(encodings) = 1 THEN Head(encodings)
    ELSE Head(encodings) \o <<",">> \o Joined(Tail(encodings))

EncodeList(encodings) == <<"[">> \o Joined(encodings) \o <<"]">>

EncodeCall(tool_call) ==
    <<"{">> \o EncodeKey("input") \o EncodeString(tool_call.input)
    \o <<",">> \o EncodeKey("name") \o EncodeString(tool_call.name)
    \o <<",">> \o EncodeKey("output") \o EncodeString(tool_call.output) \o <<"}">>

\* The entry compute_thread_hash keeps of a message, in line numbers too.
EncodeMessageWithLine(msg) ==
    <<"{">> \o EncodeKey("content") \o EncodeValue(msg.content)
    \o <<",">> \o EncodeKey("line_number") \o <<"n">> \o [k \in 1..msg.line_number |-> "1"]
    \o <<",">> \o EncodeKey("role") \o EncodeString(msg.role)
    \o <<",">> \o EncodeKey("timestamp") \o EncodeValue(msg.timestamp)
    \o <<",">> \o EncodeKey("tool_calls")
    \o EncodeList([k \in DOMAIN msg.tool_calls |-> EncodeCall(msg.tool_calls[k])])
    \o <<"}">>

\* The entry without the separators json.dumps puts around the timestamp.
EncodeMessageUnquoted(msg) ==
    <<"{">> \o EncodeKey("content") \o EncodeValue(msg.content)
    \o <<",">> \o EncodeKey("role") \o EncodeString(msg.role)
    \o <<",">> \o EncodeKey("timestamp")
    \o (IF msg.timestamp.type = "null" THEN <<"null">> ELSE msg.timestamp.chars)
    \o <<",">> \o EncodeKey("tool_calls")
    \o EncodeList([k \in DOMAIN msg.tool_calls |-> EncodeCall(msg.tool_calls[k])])
    \o <<"}">>

\* The entry compute_thread_hash keeps of a message: its role, timestamp,
\* content and tool calls, serialized.
EncodeMessage(msg) ==
    <<"{">> \o EncodeKey("content") \o EncodeValue(msg.content)
    \o <<",">> \o EncodeKey("role") \o EncodeString(msg.role)
    \o <<",">> \o EncodeKey("timestamp") \o EncodeValue(msg.timestamp)
    \o <<",">> \o EncodeKey("tool_calls")
    \o EncodeList([k \in DOMAIN msg.tool_calls |-> EncodeCall(msg.tool_calls[k])])
    \o <<"}">>

\* SHA-256, taken as free of collisions: a digest stands for the text digested.
sha256(text) == <<"sha256">> \o text

\* A hash that takes the line numbers in.
compute_thread_hash_with_lines(messages) ==
    sha256(<<"{">> \o EncodeKey("messages")
           \o EncodeList([k \in DOMAIN messages |-> EncodeMessageWithLine(messages[k])])
           \o <<"}">>)

\* A hash of a serialization that does not tell null from the string "null".
compute_thread_hash_unquoted(messages) ==
    sha256(<<"{">> \o EncodeKey("messages")
           \o EncodeList([k \in DOMAIN messages |-> EncodeMessageUnquoted(messages[k])])
           \o <<"}">>)

\* compute_thread_hash: the digest of the serialized {"messages": [...]}.
compute_thread_hash(messages) ==
    sha256(<<"{">> \o EncodeKey("messages")
           \o EncodeList([k \in DOMAIN messages |-> EncodeMessage(messages[k])])
           \o <<"}">>)

\* Longest title kept whole, in characters.
TitleLimit == 100
Ellipsis == <<".", ".", ".">>
UntitledTitle == <<"Untitled Claude Code Thread">>
\* The characters get_thread_title removes, the backquote by its name.
Markup == {"#", "*", "backquote", "[", "]", "(", ")"}
Whitespace == {" ", "\n", "\t"}

\* re.sub of the markup characters by nothing
RemoveMarkup(chars) == SelectSeq(chars, LAMBDA c : c \notin Markup)

\* re.sub(r'\s+', ' ', content)
CollapseWhitespace(chars) ==
    LET kept == SelectSeq([k \in 1..Len(chars) |-> k],
                          LAMBDA k : ~(/\ chars[k] \in Whitespace
                                       /\ k < Len(chars)
                                       /\ chars[k + 1] \in Whitespace))
    IN  [n \in 1..Len(kept) |->
            IF chars[kept[n]] \in Whitespace THEN " " ELSE chars[kept[n]]]

\* str.strip()
Strip(chars) ==
    LET inked == SelectSeq([k \in 1..Len(chars) |-> k], LAMBDA k : chars[k] \notin Whitespace)
    IN  IF inked = <<>> THEN <<>> ELSE SubSeq(chars, inked[1], inked[Len(inked)])

CleanContent(chars) == Strip(CollapseWhitespace(RemoveMarkup(chars)))

\* The message get_thread_title stops at: role "user", content a string that
\* is not blank.
GivesTitle(msg) ==
    /\ msg.role = "user"
    /\ msg.content.type = "string"
    /\ Strip(msg.content.chars) # <<>>

\* The title of a message, with the ellipsis decided on the raw content.
TitleOfRaw(msg) ==
    LET clean_content == CleanContent(msg.content.chars)
    IN  SubSeq(clean_content, 1, IF Len(clean_content) > TitleLimit
                                 THEN TitleLimit ELSE Len(clean_content))
        \o (IF Len(msg.content.chars) > TitleLimit THEN Ellipsis ELSE <<>>)

\* clean_content[:100] + ("..." if len(clean_content) > 100 else "")
TitleOf(msg) ==
    LET clean_content == CleanContent(msg.content.chars)
    IN  SubSeq(clean_content, 1, IF Len(clean_content) > TitleLimit
                                 THEN TitleLimit ELSE Len(clean_content))
        \o (IF Len(clean_content) > TitleLimit THEN Ellipsis ELSE <<>>)

\* get_thread_title: the title of the first message that gives one.
RECURSIVE get_thread_title(_)
get_thread_title(messages) ==
    IF messages = <<>> THEN UntitledTitle
    ELSE IF GivesTitle(Head(messages)) THEN TitleOf(Head(messages))
    ELSE get_thread_title(Tail(messages))

\* The output files a run of the renderer may be asked for.
Outputs == {"html", "json", "metadata"}

\* A run of the renderer that ends in an error before the hash is computed.
RenderError(error) ==
    [done |-> TRUE, exit |-> 1, artifacts |-> {}, error |-> error,
     thread_hash |-> <<>>, title |-> <<>>]

\* A run of the renderer that writes the files asked for.
RenderOf(messages, outputs) ==
    [done |-> TRUE, exit |-> 0, artifacts |-> outputs, error |-> None,
     thread_hash |-> compute_thread_hash(messages), title |-> get_thread_title(messages)]

\* A renderer that renders an empty thread.
render_main_lenient(log, outputs) ==
    LET p == parse_jsonl_session(log)
    IN  IF p.raised THEN RenderError("exception")
        ELSE IF p.failed THEN RenderError("parse_failed")
        ELSE RenderOf(p.messages, outputs)

\* render_thread.py main: exit 1 on None and on an empty list, before any
\* output file is opened; else the hash and the title are computed and the
\* files asked for are written.
render_main(log, outputs) ==
    LET p == parse_jsonl_session(log)
    IN  IF p.raised THEN RenderError("exception")
        ELSE IF p.failed THEN RenderError("parse_failed")
        ELSE IF p.messages = <<>> THEN RenderError("no_messages")
        ELSE RenderOf(p.messages, outputs)

InitRender ==
    /\ disk = MissingFile
    /\ config = DefaultConfig
    /\ gists = NoGists
    /\ nextId = 1
    /\ procs = NoProcs
    /\ ledger = NoLedger
    /\ session \in SessionLogs
    /\ rendered = NotRendered
    /\ host = HomeZone

\* One run of render_thread.py on the session log.
RenderRun ==
    /\ \E outputs \in SUBSET Outputs : rendered' = render_main(session, outputs)
    /\ UNCHANGED <<disk, config, gists, nextId, procs, ledger, session, host>>

NextRender == RenderRun

SpecRender == InitRender /\ [][NextRender]_vars

\* The line numbers of the lines of one kind, in file order.
LinesOfKind(lines, kind) ==
    SelectSeq([k \in 1..Len(lines) |-> k], LAMBDA k : lines[k].kind = kind)

\* C19: a readable session log made of N JSON-object lines, M malformed
\* lines and blank lines, in any order, parses without aborting into N
\* messages in file order, with one warning carrying the line number for
\* each malformed line.
C19_ResilientParsing ==
    (/\ session.access = "ok"
     /\ \A k \in 1..Len(session.lines) :
           session.lines[k].kind \in {"blank", "malformed", "object"}) =>
        LET p == parse_jsonl_session(session)
            objects == LinesOfKind(session.lines, "object")
        IN  /\ ~p.raised
            /\ ~p.failed
            /\ Len(p.messages) = Len(objects)
            /\ \A k \in 1..Len(objects) : p.messages[k].line_number = objects[k]
            /\ p.warnings = LinesOfKind(session.lines, "malformed")

\* The log has no message to give: it is readable and holds only lines that
\* are blank or malformed.
NoUsableMessage(log) ==
    /\ log.access = "ok"
    /\ \A k \in 1..Len(log.lines) : log.lines[k].kind \in {"blank", "malformed"}

\* C20: parse_jsonl_session answers an unreadable file with a value (None)
\* that is not the empty list it returns for a readable log without usable
\* messages; the renderer treats both as errors: it writes no HTML, JSON or
\* metadata file and exits with a non-zero status.
C20_FailedAndEmptyAreErrors ==
    LET p == parse_jsonl_session(session)
    IN  /\ session.access = "io_error" => (p.failed /\ ~p.raised)
        /\ NoUsableMessage(session) =>
              (~p.failed /\ ~p.raised /\ p.messages = <<>>
               /\ p.warnings = LinesOfKind(session.lines, "malformed"))
        /\ (session.access = "io_error" \/ NoUsableMessage(session)) =>
              /\ \A outputs \in SUBSET Outputs :
                    LET r == render_main(session, outputs)
                    IN  /\ r.exit # 0
                        /\ r.artifacts = {}
                        /\ r.error = IF p.failed THEN "parse_failed" ELSE "no_messages"
              /\ rendered.done => (rendered.exit # 0 /\ rendered.artifacts = {})

\* The renderer has run on a readable log of a blank and a malformed line
\* and has ended in the no-messages error.
C20_Witness ==
    /\ rendered.done
    /\ rendered.error = "no_messages"
    /\ session.access = "ok"
    /\ \E j \in 1..Len(session.lines), k \in 1..Len(session.lines) :
          session.lines[j].kind = "blank" /\ session.lines[k].kind = "malformed"

----------------------------------------------------------------------------
(* The identity of a thread: normalize_message and compute_thread_hash *)

Yo == <<"y", "o">>
Epoch == Number("1700000000")
IsoText == Text(<<"2023-11-14T22:13:20">>)

\* The lines of the logs hashed: a blank and a malformed line, and messages
\* without timestamp, with a Unix epoch, with the timestamp as a string and
\* a tool call.
IdentityLines ==
    { BlankLine, MalformedLine,
      ObjectLine("user", NoValue, Text(Hi), "absent"),
      ObjectLine("user", Epoch, Text(Hi), "absent"),
      ObjectLine("assistant", IsoText, Text(Yo), "list") }

InitIdentity ==
    /\ disk = MissingFile
    /\ config = DefaultConfig
    /\ gists = NoGists
    /\ nextId = 1
    /\ procs = NoProcs
    /\ ledger = NoLedger
    /\ session \in LogsOf(IdentityLines)
    /\ rendered = NotRendered
    /\ host \in TimeZones

\* The session log is taken to a host in another time zone, or the time zone
\* of the host is changed.
Rehost ==
    /\ host' \in TimeZones \ {host}
    /\ UNCHANGED <<disk, config, gists, nextId, procs, ledger, session, rendered>>

NextIdentity ==
    \/ RenderRun
    \/ Rehost

SpecIdentity == InitIdentity /\ [][NextIdentity]_vars

\* What identity is said to rest on: the role, timestamp, content and tool
\* calls of the messages, in order.
Fields(messages) ==
    [k \in DOMAIN messages |->
        [role |-> messages[k].role, timestamp |-> messages[k].timestamp,
         content |-> messages[k].content, tool_calls |-> messages[k].tool_calls]]

\* The values a line may carry in place of the ones it has.
OtherRoles == {"user", "assistant", None}
OtherTimestamps == {NoValue, Null, Epoch, IsoText, Text(<<"null">>), Number("1700003600")}
OtherContents == {NoValue, Null, Text(Hi), Text(Yo), Blocks(Hi)}
OtherToolCalls == {"absent", "list", "bare"}

\* The lines that differ from an object line in one key.
Rewritten(line) ==
    IF line.kind # "object" THEN {}
    ELSE { [line EXCEPT !.role = r] : r \in OtherRoles }
         \cup { [line EXCEPT !.timestamp = t] : t \in OtherTimestamps }
         \cup { [line EXCEPT !.content = c] : c \in OtherContents }
         \cup { [line EXCEPT !.tool_calls = tc] : tc \in OtherToolCalls }

\* A sequence without its k-th element, and with an element put before the
\* k-th.
Without(seq, k) == SubSeq(seq, 1, k - 1) \o SubSeq(seq, k + 1, Len(seq))
WithBefore(seq, k, e) == SubSeq(seq, 1, k - 1) \o <<e>> \o SubSeq(seq, k, Len(seq))

\* The logs one edit away from a log: a blank or malformed line put in or
\* taken out, one key of one line rewritten, a line taken out, two lines
\* exchanged.
Neighbours(lines) ==
    { WithBefore(lines, k, BlankLine) : k \in 1..Len(lines) + 1 }
    \cup { WithBefore(lines, k, MalformedLine) : k \in 1..Len(lines) + 1 }
    \cup { Without(lines, k) : k \in 1..Len(lines) }
    \cup UNION { { [lines EXCEPT ![k] = l] : l \in Rewritten(lines[k]) } : k \in 1..Len(lines) }
    \cup { [lines EXCEPT ![j] = lines[k], ![k] = lines[j]] : j, k \in 1..Len(lines) }

\* The messages of the lines of a readable log.
MessagesOf(lines) == parse_jsonl_session([access |-> "ok", lines |-> lines]).messages

\* C21: the hash depends on the role, timestamp, content and tool calls of
\* the messages, in order, and on nothing else: a log one edit away whose
\* messages agree in those fields has the same hash, whatever the line
\* numbers of its messages (blank or malformed lines put in or taken out).
C21_HashOfFieldsOnly ==
    LET messages == MessagesOf(session.lines)
        fields == Fields(messages)
        thread_hash == compute_thread_hash(messages)
    IN  \A other \in Neighbours(session.lines) :
            Fields(MessagesOf(other)) = fields =>
                compute_thread_hash(MessagesOf(other)) = thread_hash

\* The renderer has hashed a log in which a blank line stands before a
\* message: without the blank line the message has another line number and
\* the hash is the one the run computed.
C21_Witness ==
    /\ rendered.done /\ rendered.exit = 0
    /\ Len(session.lines) >= 2
    /\ session.lines[1].kind = "blank"
    /\ session.lines[2].kind = "object"
    /\ MessagesOf(Tail(session.lines))[1].line_number #
          MessagesOf(session.lines)[1].line_number
    /\ rendered.thread_hash = compute_thread_hash(MessagesOf(session.lines))
    /\ compute_thread_hash(MessagesOf(Tail(session.lines))) = rendered.thread_hash

\* C22: the serialization that is hashed tells threads apart: a log one edit
\* away whose messages differ in the role, timestamp, content or tool calls
\* of a message, in their number or in their order has a different hash (the
\* digest being free of collisions).
C22_HashDistinguishes ==
    LET messages == MessagesOf(session.lines)
        fields == Fields(messages)
        thread_hash == compute_thread_hash(messages)
    IN  \A other \in Neighbours(session.lines) :
            Fields(MessagesOf(other)) # fields =>
                compute_thread_hash(MessagesOf(other)) # thread_hash

\* The renderer has hashed a log of two different messages: the same two in
\* the other order, and the first with another timestamp, hash differently.
C22_Witness ==
    /\ rendered.done /\ rendered.exit = 0
    /\ Len(session.lines) = 2
    /\ session.lines[1].kind = "object" /\ session.lines[2].kind = "object"
    /\ session.lines[1] # session.lines[2]
    /\ rendered.thread_hash = compute_thread_hash(MessagesOf(session.lines))
    /\ compute_thread_hash(MessagesOf(<<session.lines[2], session.lines[1]>>)) #
          rendered.thread_hash
    /\ session.lines[1].timestamp = NoValue
    /\ compute_thread_hash(MessagesOf(
          <<[session.lines[1] EXCEPT !.timestamp = Text(<<"null">>)], session.lines[2]>>)) #
          rendered.thread_hash

----------------------------------------------------------------------------
(* The title of a thread: get_thread_title *)

\* n times the letter a.
Letters(n) == [k \in 1..n |-> "a"]

\* A text of TitleLimit characters once cleaned, and longer before.
Tidy ==
    <<"#", " ">> \o Letters(TitleLimit - 3) \o <<" ", "\n", "\t", "[", "x", "]", "(", "y", ")", " ">>

\* The lines of the logs titled: an assistant's message and user messages
\* whose content is blank, not a string, text of TitleLimit characters
\* without its markup and its runs of whitespace, and text of TitleLimit + 1
\* letters.
TitleLines ==
    { ObjectLine("assistant", NoValue, Text(Yo), "absent"),
      ObjectLine("user", NoValue, Text(<<" ", "\n">>), "absent"),
      ObjectLine("user", NoValue, Blocks(Hi), "absent"),
      ObjectLine("user", NoValue, Text(Tidy), "absent"),
      ObjectLine("user", NoValue, Text(Letters(TitleLimit + 1)), "absent") }

InitTitle ==
    /\ disk = MissingFile
    /\ config = DefaultConfig
    /\ gists = NoGists
    /\ nextId = 1
    /\ procs = NoProcs
    /\ ledger = NoLedger
    /\ session \in LogsOf(TitleLines)
    /\ rendered = NotRendered
    /\ host = HomeZone

SpecTitle == InitTitle /\ [][NextIdentity]_vars

\* The characters of a text that are neither markup nor whitespace, in order.
Ink(chars) == SelectSeq(chars, LAMBDA c : c \notin Markup \cup Whitespace)

\* The places of those characters in a text.
InkPlaces(chars) ==
    SelectSeq([k \in 1..Len(chars) |-> k], LAMBDA k : chars[k] \notin Markup \cup Whitespace)

\* The text is the cleaned form of the content: no markup character, no
\* whitespace but single spaces between two other characters, the other
\* characters kept in order, and a space between two of them exactly where
\* the content has whitespace between them.
IsCleaned(text, chars) ==
    /\ \A k \in 1..Len(text) : text[k] \notin Markup
    /\ \A k \in 1..Len(text) : text[k] \in Whitespace =>
          (text[k] = " " /\ 1 < k /\ k < Len(text) /\ text[k + 1] \notin Whitespace)
    /\ Ink(text) = Ink(chars)
    /\ LET places == InkPlaces(chars)
           cleaned == InkPlaces(text)
       IN  \A n \in 1..Len(places) - 1 :
              (cleaned[n + 1] > cleaned[n] + 1) <=>
                  \E k \in places[n]..places[n + 1] : chars[k] \in Whitespace

\* The first message, in order, of the user whose content is a string with a
\* character that is not whitespace; 0 when there is none.
FirstTitled(messages) ==
    LET titled == { k \in 1..Len(messages) :
                       /\ messages[k].role = "user"
                       /\ messages[k].content.type = "string"
                       /\ \E i \in 1..Len(messages[k].content.chars) :
                             messages[k].content.chars[i] \notin Whitespace }
    IN  IF titled = {} THEN 0 ELSE CHOOSE k \in titled : \A j \in titled : k <= j

\* The title as the claim describes it, with the placeholder to be given.
TitleAsDescribed(title, messages, placeholder) ==
    LET first == FirstTitled(messages)
    IN  IF first = 0 THEN title = placeholder
        ELSE LET text == CleanContent(messages[first].content.chars)
             IN  /\ IsCleaned(text, messages[first].content.chars)
                 /\ Len(text) <= TitleLimit => title = text
                 /\ Len(text) > TitleLimit =>
                       title = SubSeq(text, 1, TitleLimit) \o Ellipsis

\* C23 as stated: the title comes from the first message of the user with
\* non-empty text content, cleaned of markup and of whitespace runs and cut
\* to 100 characters with an ellipsis exactly when the cleaned text is
\* longer; without such a message it is the placeholder "Untitled Thread".
C23_TitleAsStated ==
    (rendered.done /\ rendered.exit = 0) =>
        TitleAsDescribed(rendered.title, MessagesOf(session.lines), <<"Untitled Thread">>)

\* C23: as stated, with the placeholder the code returns, "Untitled Claude
\* Code Thread".
C23_TitleDerivation ==
    LET messages == MessagesOf(session.lines)
    IN  /\ TitleAsDescribed(get_thread_title(messages), messages,
                            <<"Untitled Claude Code Thread">>)
        /\ (rendered.done /\ rendered.exit = 0) =>
              rendered.title = get_thread_title(messages)

\* The renderer has titled a log whose first user messages give no title
\* (blank, not a string) and whose next one has exactly TitleLimit
\* characters once the markup and the runs of whitespace are gone: the
\* title is that text, whole.
C23_Witness ==
    /\ rendered.done /\ rendered.exit = 0
    /\ Len(session.lines) = 3
    /\ session.lines[1].content = Text(<<" ", "\n">>)
    /\ session.lines[2].content = Blocks(Hi)
    /\ session.lines[3].content = Text(Tidy)
    /\ Len(Tidy) > TitleLimit
    /\ rendered.title = Letters(TitleLimit - 3) \o <<" ", "x", "y">>

\* The renderer has titled a log without a message of the user that has
\* text, and the title is the placeholder.
C23_PlaceholderWitness ==
    /\ rendered.done /\ rendered.exit = 0
    /\ FirstTitled(MessagesOf(session.lines)) = 0
    /\ rendered.title = UntitledTitle

----------------------------------------------------------------------------
(* The identity of a thread across hosts *)

\* C24: the thread hash of a session log does not depend on the host or on
\* the time of the run: the hash a run of the renderer has computed is the
\* hash of the same log on the host it is on now, also when messages carry
\* a Unix epoch that is converted in the local time zone.
C24_HostIndependentIdentity ==
    (rendered.done /\ rendered.exit = 0) =>
        rendered.thread_hash = compute_thread_hash(MessagesOf(session.lines))

----------------------------------------------------------------------------
(* Publish runs of different threads side by side *)

\* Both runs are over and have saved the index, p before q, each for its
\* own hash.
BothSaved(p, q) ==
    /\ p # q
    /\ procs[p].pc = "done" /\ procs[q].pc = "done"
    /\ procs[p].hash # procs[q].hash
    /\ 0 < procs[p].rank /\ procs[p].rank < procs[q].rank

\* C25 as claimed: after two concurrent publish runs of different hashes
\* have both completed successfully, in any interleaving of their loads,
\* remote calls and saves, the index file holds the entries of both hashes.
C25_BothEntriesPersist ==
    \A p \in Procs, q \in Procs :
        BothSaved(p, q) => {procs[p].hash, procs[q].hash} \subseteq DOMAIN Loaded

\* C25 as amended: after two concurrent publish runs of different hashes
\* have both completed successfully, the index file is the copy of the run
\* that saved last: it holds the entry of that run, and the entry of the
\* other run exactly when the last saver loaded the index after the other
\* had saved; else the gist the other run created exists and no entry
\* references it.
C25_LastSaverDecides ==
    \A p \in Procs, q \in Procs :
        BothSaved(p, q) =>
            /\ procs[q].hash \in DOMAIN Loaded
            /\ Loaded[procs[q].hash].gist_id = procs[q].created
            /\ procs[p].hash \in DOMAIN Loaded <=> procs[q].seen >= procs[p].rank
            /\ procs[p].hash \in DOMAIN Loaded =>
                  Loaded[procs[p].hash].gist_id = procs[p].created
            /\ procs[p].hash \notin DOMAIN Loaded =>
                  /\ procs[p].created \in DOMAIN gists
                  /\ procs[p].created \notin KnownGistIds(Loaded)

\* Both runs loaded the empty index before either saved, each created the
\* gist of its hash and saved: the file holds the entry of the last saver
\* alone.
C25_Witness ==
    \E p \in Procs, q \in Procs :
        /\ BothSaved(p, q)
        /\ procs[q].seen = 0
        /\ DOMAIN gists = {1, 2}
        /\ DOMAIN Loaded = {procs[q].hash}

\* The second run loaded the index after the first had saved: the file holds
\* both entries.
C25_SequentialWitness ==
    \E p \in Procs, q \in Procs :
        /\ BothSaved(p, q)
        /\ procs[q].seen = 1
        /\ DOMAIN Loaded = {procs[p].hash, procs[q].hash}

----------------------------------------------------------------------------
(* An entry whose gist is gone *)

\* The index file has an entry for the hash and the gist it names does not
\* exist.
Stale(h) == h \in DOMAIN Loaded /\ Loaded[h].gist_id \notin DOMAIN gists

\* The index file a run left has the entry of the hash as it was.
KeepsEntry(file, h) ==
    /\ h \in DOMAIN load_index(file)
    /\ load_index(file)[h] = Loaded[h]

\* C26: once the gist of the entry for h is gone while the entry remains,
\* every non-forced publish of h calls update on the missing id, fails,
\* creates nothing and leaves the entry and the index file as they are; no
\* command but deleteByHash(h) and a forced publish of h changes the entry,
\* which deleteByHash(h) removes and a forced publish replaces.
C26_StaleEntryBlocks ==
    \A h \in Hashes :
        Stale(h) =>
            /\ \A inv \in Invocations, typed \in Typings, cfg_save_ok \in BOOLEAN,
                  fault \in Faults, save_outcome \in SaveOutcomes :
                  LET r == Publish(h, inv, TRUE, typed, cfg_save_ok, fault, save_outcome)
                  IN  /\ r.calls = << <<"update_gist", Loaded[h].gist_id>> >>
                      /\ OnlyRequests(r.requests, "PATCH", Loaded[h].gist_id)
                      /\ (config.github_token # None \/ typed # "") =>
                            /\ Len(r.requests) = 1
                            /\ fault = "none" => r.requests[1][3] = 404
                      /\ ~r.result.ok
                      /\ r.gists = gists /\ r.nextId = nextId
                      /\ r.threads = Loaded /\ r.file = disk /\ r.saves = <<>>
            /\ \A h2 \in Hashes \ {h}, inv \in Invocations, forced \in BOOLEAN,
                  typed \in Typings, fault \in Faults, save_outcome \in SaveOutcomes :
                  KeepsEntry(Publish(h2, inv, ~forced, typed, TRUE, fault, save_outcome).file, h)
            /\ \A h2 \in Hashes \ {h}, confirm \in BOOLEAN, answer \in Answers,
                  fault \in Faults, save_outcome \in SaveOutcomes :
                  KeepsEntry(DeleteByHash(h2, confirm, answer, fault, save_outcome).file, h)
            /\ \A id \in GistIds, force \in BOOLEAN, answer \in Answers, fault \in Faults :
                  KeepsEntry(DeleteById(id, force, answer, fault).file, h)
            /\ \A dry_run \in BOOLEAN, list_fault \in Faults, answer \in Answers :
                  \A faults \in CleanupFaults(dry_run, list_fault, answer) :
                      KeepsEntry(Cleanup(dry_run, list_fault, answer, faults).file, h)
            /\ config.github_token # None =>
                  LET d == DeleteByHash(h, FALSE, "yes", "none", "ok")
                  IN  d.success /\ h \notin DOMAIN load_index(d.file)
            /\ \A inv \in Invocations, typed \in Typings :
                  LET r == Publish(h, inv, FALSE, typed, TRUE, "none", "ok")
                  IN  r.result.ok =>
                         /\ r.calls = << <<"create_gist", 0>> >>
                         /\ h \in DOMAIN load_index(r.file)
                         /\ load_index(r.file)[h].gist_id = r.result.id
                         /\ r.result.id # Loaded[h].gist_id

\* The gist of the entry for "h1" was deleted by id and a non-forced publish
\* of "h1" has been answered 404 since: the entry still names the gist that
\* is gone, and no gist has been created in its place.
C26_Witness ==
    /\ Stale("h1")
    /\ config.github_token # None
    /\ Loaded["h1"].gist_id = 1
    /\ gists = NoGists
    /\ nextId = 2
    /\ \E inv \in Invocations :
          LET r == Publish("h1", inv, TRUE, "", TRUE, "none", "ok")
          IN  r.requests = << <<"PATCH", 1, 404>> >> /\ ~r.result.ok

----------------------------------------------------------------------------
(* A deletion the operator declines *)

\* C27: when deleteByHash asks for confirmation and the answer, trimmed and
\* in lower case, is neither "yes" nor "y", no remote delete call is made,
\* the entry stays, the index is not saved and the command reports failure.
C27_DeclinedDeleteFrame ==
    \A h \in DOMAIN Loaded, answer \in Answers, fault \in Faults,
       save_outcome \in SaveOutcomes :
        StripLower(answer) \notin {"yes", "y"} =>
            LET r == DeleteByHash(h, TRUE, answer, fault, save_outcome)
            IN  /\ r.prompts = 1
                /\ r.calls = <<>>
                /\ r.requests = <<>>
                /\ r.gists = gists
                /\ r.threads = Loaded
                /\ r.saves = <<>>
                /\ r.file = disk
                /\ ~r.success
                /\ DeleteByHashExit(r) = 1

\* The index tracks a gist that exists and a token is at hand: the delete
\* by hash goes through on the answer " Y " and is declined on "no" and on
\* an empty answer.
C27_Witness ==
    /\ config.github_token # None
    /\ \E h \in DOMAIN Loaded :
          /\ Loaded[h].gist_id \in DOMAIN gists
          /\ DeleteByHash(h, TRUE, " Y ", "none", "ok").outcome = "deleted"
          /\ DeleteByHash(h, TRUE, "no", "none", "ok").outcome = "cancelled"
          /\ DeleteByHash(h, TRUE, "", "none", "ok").outcome = "cancelled"

----------------------------------------------------------------------------
(* The cleanup beside publish runs *)

\* GistDeleter.__init__ of a run with --cleanup --cleanup-execute: the
\* process reads the index file into memory.
CleanupLoad(p) ==
    /\ procs[p].pc = "idle"
    /\ procs' = [procs EXCEPT ![p] = [IdleProc EXCEPT !.pc = "cleanup_loaded",
                                                      !.index = load_index(disk),
                                                      !.seen = Saved]]
    /\ UNCHANGED <<disk, config, gists, nextId, ledger, session, rendered, host>>

\* cleanup_orphaned_gists up to the prompt: the listing, the orphans by the
\* copy of the index the process loaded, and the answer of the operator.
CleanupList(p) ==
    /\ procs[p].pc = "cleanup_loaded"
    /\ \E list_fault \in Faults, answer \in Answers :
          LET orphans == OrphanedGists(procs[p].index, gists, nextId)
              deletes == /\ get_github_token(config) # None
                         /\ list_fault = "none"
                         /\ ~\E i \in DOMAIN gists : RaisesTypeError(gists[i])
                         /\ AsksToDelete(orphans, FALSE)
                         /\ Confirmed(answer)
          IN  procs' = [procs EXCEPT ![p] =
                 [@ EXCEPT !.pc = IF deletes THEN "cleanup_listed" ELSE "done",
                           !.orphans = IF deletes THEN orphans ELSE <<>>]]
    /\ UNCHANGED <<disk, config, gists, nextId, ledger, session, rendered, host>>

\* One turn of the loop "for gist in orphaned_gists: self.delete_gist(...)".
CleanupDelete(p) ==
    /\ procs[p].pc = "cleanup_listed"
    /\ \E fault \in Faults :
          gists' = delete_gist(get_github_token(config), Head(procs[p].orphans),
                               fault, gists).gists
    /\ procs' = [procs EXCEPT ![p] =
          [@ EXCEPT !.pc = IF Tail(procs[p].orphans) = <<>> THEN "done" ELSE "cleanup_listed",
                    !.orphans = Tail(procs[p].orphans)]]
    /\ UNCHANGED <<disk, config, nextId, ledger, session, rendered, host>>

NextReconcile ==
    \E p \in Procs :
        \/ ProcLoad(p)
        \/ ProcCall(p)
        \/ ProcSave(p)
        \/ CleanupLoad(p)
        \/ CleanupList(p)
        \/ CleanupDelete(p)

SpecReconcile == InitConcurrent /\ [][NextReconcile]_vars

\* C28: a cleanup in execute mode never deletes a gist that the index file
\* references at the moment of the deletion, and never changes the index
\* file, whatever a publish run beside it creates and saves after the
\* cleanup loaded its copy of the index.
C28_NeverDeletesReferenced ==
    [][\A id \in DOMAIN gists \ DOMAIN gists' :
          /\ id \notin KnownGistIds(load_index(disk))
          /\ disk' = disk]_vars

----------------------------------------------------------------------------
(* The cleanup on any listing *)

\* C29: with a token and a listing that is answered, cleanup_orphaned_gists
\* ends with an orphan set (reported, declined or deleted) and not with an
\* error it does not handle, also when a listed gist has a null description
\* or no file.
C29_CleanupCompletes ==
    \A dry_run \in BOOLEAN, answer \in Answers :
    \A faults \in CleanupFaults(dry_run, "none", answer) :
        config.github_token # None =>
            LET r == Cleanup(dry_run, "none", answer, faults)
            IN  /\ r.outcome \in {"reported", "cancelled", "deleted"}
                /\ Range(r.orphans) \subseteq DOMAIN gists

----------------------------------------------------------------------------
(* Lines that are JSON and not a message *)

\* The lines of a log that are messages as they stand: JSON objects whose
\* "tool_calls", when present, is a list of objects.
ValidLines(lines) ==
    { k \in 1..Len(lines) :
         lines[k].kind = "object" /\ lines[k].tool_calls \in {"absent", "list", "bare"} }

\* C30: no line aborts the parse of a readable log: a line that is JSON but
\* not an object, or an object whose tool_calls is not a list of objects, is
\* skipped or normalized with defaults, and every valid line of the log is
\* returned as a message; a run of the renderer does not end in an
\* exception.
C30_NoLineAborts ==
    session.access = "ok" =>
        LET p == parse_jsonl_session(session)
        IN  /\ ~p.raised
            /\ \A k \in ValidLines(session.lines) :
                  \E m \in 1..Len(p.messages) : p.messages[m].line_number = k
            /\ rendered.done => rendered.error # "exception"

====
